---- MODULE Spec2Model ----
(***************************************************************************)
(* Runtime of babel-plugin-transform-raw-jsx: the reactive container       *)
(* (Observable), computed / merge, the list reconciler (map) and the       *)
(* release of a node (destroy), as state machines translated from          *)
(* src/src/runtime/index.ts and src/src/runtime/map.ts.                    *)
(***************************************************************************)
EXTENDS Integers, Sequences, FiniteSets, TLC

\* Values written to containers (JavaScript primitives).
Vals == {1, 2}

\* How many observers one container gets in a run.
MaxObservers == 3
\* How many times the unsubscribe of one handle is called.
MaxUnsubCalls == 2

VARIABLES
    val,          \* Observable.val
    observers,    \* Observable.observers: the observer objects, in push order
    nextObserver, \* the next observer object subscribe() creates
    unsubCount,   \* per handle: how many times its unsubscribe() was called
    notified,     \* the calls observer.next(v) made by the last write, in order
    obsOp,        \* the last operation on the container
    inWrite       \* the last write: what container.value read in each call,
                  \* which callback unsubscribed which handle while it ran

obsVars == <<val, observers, nextObserver, unsubCount, notified, obsOp, inWrite>>

\* The containers a computed value may depend on are 1..NumDeps.
NumDeps == 2
\* How many writes to dependencies follow the construction of a computed value.
MaxWrites == 3

VARIABLES
    depVal,       \* per dependency: Observable.val
    depObs,       \* per dependency: Observable.observers
    mergeObs,     \* the `observers` array of the subscribable merge() returned
    compDeps,     \* the `dependencies` argument of computed(), once it was called
    built,        \* whether computed() was called
    derived,      \* the derived container: its val and how often it was written
    evals,        \* every result of computation() so far, in order
    builtWith,    \* the dependencies' values when computed() was called
    memberWrites  \* the dependencies' values after each write to one of compDeps

compVars == <<depVal, depObs, mergeObs, compDeps, built, derived, evals,
              builtWith, memberWrites>>

\* How many operations on the reconciler's stand-in follow the initial render.
MaxOps == 2
\* The longest list map() is first called with.
MaxInit == 3

VARIABLES
    dom,           \* parent.childNodes
    values,        \* map(): `values`, the value container of each position
    reactiveItems, \* map(): `reactiveItems`, the ReactiveItem of each position
    contVal,       \* per value container: Observable.val
    listVal,       \* the val of the container `list`: the proxy or a plain array
    nextItem,      \* the next container / marker / node run created
    mapOps,        \* how many operations ran
    mapOp          \* the last operation, its arguments and the state before it

mapVars == <<dom, values, reactiveItems, contVal, listVal, nextItem, mapOps, mapOp>>

\* How many writes to the containers of a constructed node a run makes.
MaxCellWrites == 3

VARIABLES
    phase,         \* "new", "built" once the setup statements ran, "released"
    cellVal,       \* per captured container (and the computed one): its val
    cellObs,       \* per captured container (and the computed one): its observers
    mergedObs,     \* the observers of merge(x, y) inside the computed attribute
    props,         \* the properties createElement bound on the root node
    children,      \* the root node's childNodes
    inserted,      \* the `inserted` list of the dynamic child
    subscriptions, \* node.subscriptions
    attached,      \* whether the root node is still under its parent
    cellWrites,    \* how many writes ran
    atRelease      \* the node's properties and children when destroy() returned

nodeVars == <<phase, cellVal, cellObs, mergedObs, props, children, inserted,
              subscriptions, attached, cellWrites, atRelease>>

\* How many attributes the attribute object of an element has at most.
MaxAttrs == 2
\* How many writes to variables follow the construction of that element.
MaxAttrWrites == 2

VARIABLES
    attrSrc,      \* the attribute object in the source: its properties in order
    attrEnv,      \* per variable: the value compiled expressions read for it
    plainVal,     \* per variable: the value of the binding declared in the source
    extDeps,      \* State.externalDependencies: the names captured so far
    emitted,      \* the attribute object after processAttributes
    attrPhase,    \* "source", "compiled", "created" once createElement ran
    elProps,      \* per attribute: the element's property
    contObs,      \* per captured variable: the observers of its container
    derivedVal,   \* per attribute: the val of its computed container
    derivedObs,   \* per attribute: the observers of its computed container
    attrWrites,   \* how many writes ran
    attrOp        \* the last operation

attrVars == <<attrSrc, attrEnv, plainVal, extDeps, emitted, attrPhase, elProps, contObs,
              derivedVal, derivedObs, attrWrites, attrOp>>

\* How many children the root call has at most.
MaxChildren == 2
\* How many times dynamic children re-render after the setup code ran.
MaxRerenders == 1
\* How many ancestors of the root call the walk of visit may pass at most.
MaxAncestors == 2
\* How many nodes one evaluation of a dynamic child's expression yields at most.
MaxNodes == 2

VARIABLES
    tree,         \* the root call: its tag, its attributes, its children
    opts,         \* the plugin's options and environment
    visitPhase,   \* "source", "compiled" or "threw", "ran" once the code ran
    stmts,        \* State.stmts
    program,      \* what replaced the call and the statements put before it
    requested,    \* the runtime members asked of makeRuntimeMemberExpression
    run,          \* run time: the root's childNodes, the inserted lists, the
                  \* children container's entries, whether a statement threw
    renders       \* how many re-renders ran

visitVars == <<tree, opts, visitPhase, stmts, program, requested, run, renders>>

\* How many nested roots the chain of contexts has at most.
MaxDepth == 2
\* How many attributes or expression children one context processes at most.
MaxCaptures == 2
\* How many container identifiers are generated at most.
MaxUids == 4

VARIABLES
    extDepsOf,    \* State.externalDependencies of the context being compiled
    depth,        \* which context of the chain it is
    visiting,     \* whether its visit is still running
    captures,     \* how many expressions it has processed
    nextUid,      \* the next identifier generateUidIdentifier returns
    replacedBy,   \* the references rewritten so far, each with its identifier
    created,      \* the entries created so far: identifier, name, binding scope
    declared      \* per identifier, how many wrapper declarations name it

depsVars == <<extDepsOf, depth, visiting, captures, nextUid, replacedBy, created,
             declared>>

vars == <<obsVars, compVars, mapVars, nodeVars, attrVars, visitVars, depsVars>>

ObsFrame == UNCHANGED <<compVars, mapVars, nodeVars, attrVars, visitVars, depsVars>>
CompFrame == UNCHANGED <<obsVars, mapVars, nodeVars, attrVars, visitVars, depsVars>>
MapFrame == UNCHANGED <<obsVars, compVars, nodeVars, attrVars, visitVars, depsVars>>
NodeFrame == UNCHANGED <<obsVars, compVars, mapVars, attrVars, visitVars, depsVars>>
AttrFrame == UNCHANGED <<obsVars, compVars, mapVars, nodeVars, visitVars, depsVars>>
VisitFrame == UNCHANGED <<obsVars, compVars, mapVars, nodeVars, attrVars, depsVars>>
DepsFrame == UNCHANGED <<obsVars, compVars, mapVars, nodeVars, attrVars, visitVars>>

------------------------------------------------------------------------------
(* JavaScript array built-ins, on 1-based sequences with 0-based arguments. *)

\* Array.prototype.indexOf: the 0-based position of the first x, or -1.
JsIndexOf(arr, x) ==
    IF \E i \in 1..Len(arr) : arr[i] = x
    THEN (CHOOSE i \in 1..Len(arr) : arr[i] = x /\ \A j \in 1..(i - 1) : arr[j] # x) - 1
    ELSE -1

Min(a, b) == IF a < b THEN a ELSE b
Max(a, b) == IF a > b THEN a ELSE b

\* The start Array.prototype.splice really uses: a negative start counts from
\* the end, and the result is clamped to 0..length.
JsSpliceStart(arr, start) ==
    IF start < 0 THEN Max(Len(arr) + start, 0) ELSE Min(start, Len(arr))

JsSpliceCount(arr, start, deleteCount) ==
    Min(Max(deleteCount, 0), Len(arr) - JsSpliceStart(arr, start))

\* Array.prototype.splice: the array afterwards ...
JsSplice(arr, start, deleteCount, items) ==
    LET s == JsSpliceStart(arr, start)
        d == JsSpliceCount(arr, start, deleteCount)
    IN  SubSeq(arr, 1, s) \o items \o SubSeq(arr, s + d + 1, Len(arr))

\* ... and the removed elements it returns.
JsSpliceRemoved(arr, start, deleteCount) ==
    LET s == JsSpliceStart(arr, start)
        d == JsSpliceCount(arr, start, deleteCount)
    IN  SubSeq(arr, s + 1, s + d)

------------------------------------------------------------------------------
(* Observable (src/src/runtime/index.ts:376-443)                            *)

\* set value(): the loop `for (i = 0; i < this.observers.length; i++)
\* this.observers[i].next(value)`; the calls it makes, in order.
RECURSIVE NotifyLoop(_, _, _, _)
NotifyLoop(obs, value, i, calls) ==
    IF i < Len(obs)
    THEN NotifyLoop(obs, value, i + 1, Append(calls, <<obs[i + 1], value>>))
    ELSE calls

\* The closure subscribe() returns: observers.splice(observers.indexOf(observer), 1).
UnsubscribeSplice(obs, observer) ==
    JsSplice(obs, JsIndexOf(obs, observer), 1, <<>>)

\* The loop of set value() over the live this.observers, with a callback
\* (observer who) that calls the unsubscribe of handle target when it runs:
\* each call is made with the written value and reads this.val.
RECURSIVE NotifyLive(_, _, _, _, _)
NotifyLive(st, value, i, who, target) ==
    IF i < Len(st.observers)
    THEN LET o == st.observers[i + 1]
             called == [st EXCEPT !.calls = Append(@, <<o, value>>),
                                  !.reads = Append(@, st.val)]
         IN  NotifyLive(
                 IF o = who
                 THEN [called EXCEPT !.observers = UnsubscribeSplice(@, target),
                                     !.unsubs = @ + 1]
                 ELSE called,
                 value, i + 1, who, target)
    ELSE st

\* set value(value), lines 403-408: setUnderlyingValue, then the loop.
ValueSetter(current, obs, value, who, target) ==
    NotifyLive([val |-> value, observers |-> obs, calls |-> <<>>, reads |-> <<>>,
                unsubs |-> 0], value, 0, who, target)

NoWrite == [reads |-> <<>>, who |-> 0, target |-> 0]

ObsStart ==
    /\ inWrite = NoWrite
    /\ val \in Vals
    /\ observers = <<>>
    /\ nextObserver = 1
    /\ unsubCount = [h \in 1..MaxObservers |-> 0]
    /\ notified = <<>>
    /\ obsOp = [op |-> "new", arg |-> val, before |-> <<>>]

\* subscribe(next): a new observer object is pushed; the handle is its id.
Subscribe ==
    /\ nextObserver <= MaxObservers
    /\ observers' = Append(observers, nextObserver)
    /\ nextObserver' = nextObserver + 1
    /\ obsOp' = [op |-> "subscribe", arg |-> nextObserver, before |-> observers]
    /\ UNCHANGED <<val, unsubCount, notified, inWrite>>
    /\ ObsFrame

\* handle.unsubscribe(), any number of times on any handle handed out.
Unsubscribe(h) ==
    /\ h < nextObserver
    /\ unsubCount[h] < MaxUnsubCalls
    /\ observers' = UnsubscribeSplice(observers, h)
    /\ unsubCount' = [unsubCount EXCEPT ![h] = @ + 1]
    /\ obsOp' = [op |-> "unsubscribe", arg |-> h, before |-> observers]
    /\ UNCHANGED <<val, nextObserver, notified, inWrite>>
    /\ ObsFrame

\* container.value = v
SetValue(v) ==
    /\ val' = v
    /\ notified' = NotifyLoop(observers, v, 0, <<>>)
    /\ obsOp' = [op |-> "write", arg |-> v, before |-> observers]
    /\ inWrite' = [NoWrite EXCEPT !.reads = ValueSetter(val, observers, v, 0, 0).reads]
    /\ UNCHANGED <<observers, nextObserver, unsubCount>>
    /\ ObsFrame

\* container.value = v while the callback of observer who calls
\* handle.unsubscribe() of handle target (its own or another one).
SetValueUnsubscribing(v, who, target) ==
    /\ who < nextObserver
    /\ target < nextObserver
    /\ JsIndexOf(observers, who) >= 0
    /\ unsubCount[target] < MaxUnsubCalls
    /\ LET r == ValueSetter(val, observers, v, who, target)
       IN  /\ observers' = r.observers
           /\ notified' = r.calls
           /\ unsubCount' = [unsubCount EXCEPT ![target] = @ + r.unsubs]
           /\ inWrite' = [reads |-> r.reads, who |-> who, target |-> target]
    /\ val' = v
    /\ obsOp' = [op |-> "write", arg |-> v, before |-> observers]
    /\ UNCHANGED nextObserver
    /\ ObsFrame

\* container.setUnderlyingValue(v): no notification.
SetUnderlyingValue(v) ==
    /\ val' = v
    /\ notified' = <<>>
    /\ obsOp' = [op |-> "silent", arg |-> v, before |-> observers]
    /\ inWrite' = NoWrite
    /\ UNCHANGED <<observers, nextObserver, unsubCount>>
    /\ ObsFrame

ObsNext ==
    \/ Subscribe
    \/ \E h \in 1..MaxObservers : Unsubscribe(h)
    \/ \E v \in Vals : SetValue(v)
    \/ \E v \in Vals : \E who, target \in 1..MaxObservers :
           SetValueUnsubscribing(v, who, target)
    \/ \E v \in Vals : SetUnderlyingValue(v)

------------------------------------------------------------------------------
(* Claims about the container                                               *)

\* The calls of observer h's callback in the last write.
CallsOf(h) == SelectSeq(notified, LAMBDA c : c[1] = h)

\* C1: between subscribe(cb) and the unsubscribe of its handle every write of
\* v invokes cb exactly once with v; after the unsubscribe no write invokes cb.
C1_NotifiedOnceUntilUnsubscribed ==
    (obsOp.op = "write" /\ inWrite.who = 0) =>
        \A h \in 1..(nextObserver - 1) :
            IF unsubCount[h] = 0
            THEN CallsOf(h) = <<(<<h, obsOp.arg>>)>>
            ELSE CallsOf(h) = <<>>

\* C2: a second unsubscribe on the same handle is a no-op: it leaves the
\* subscriber list as the first call left it.
C2_SecondUnsubscribeIsNoOp ==
    (obsOp.op = "unsubscribe" /\ unsubCount[obsOp.arg] >= 2) =>
        observers = obsOp.before

\* The observers the last write called, in the order of the calls, and the
\* observers it found subscribed; the handle a callback unsubscribed during
\* the write is left out of both.
CalledInWrite ==
    SelectSeq([i \in 1..Len(notified) |-> notified[i][1]],
              LAMBDA h : h # inWrite.target)

DueInWrite == SelectSeq(obsOp.before, LAMBDA h : h # inWrite.target)

\* C20: a write first records the new value, so that a read made inside any
\* notified callback returns it, and then, before it returns, calls with that
\* value the subscribers registered when it started, in the order in which
\* they subscribed.
C20_RecordThenNotifyInOrder ==
    obsOp.op = "write" =>
        /\ val = obsOp.arg
        /\ Len(inWrite.reads) = Len(notified)
        /\ \A i \in 1..Len(notified) :
               inWrite.reads[i] = obsOp.arg /\ notified[i][2] = obsOp.arg
        /\ \A i, j \in 1..Len(notified) : i < j => notified[i][1] < notified[j][1]
        /\ CalledInWrite = DueInWrite

\* C28: during one write every subscriber that was subscribed when the write
\* started, and whose own handle no callback unsubscribed during it, is
\* invoked exactly once, also when a callback unsubscribes itself or a third
\* subscriber during the notification.
C28_EachSubscriberOncePerWrite ==
    obsOp.op = "write" =>
        \A i \in 1..Len(obsOp.before) :
            obsOp.before[i] # inWrite.target =>
                Len(CallsOf(obsOp.before[i])) = 1

------------------------------------------------------------------------------
(* computed and merge (src/src/runtime/index.ts:663-706)                    *)

Deps == 1..NumDeps

\* The dependency lists computed() is called with: any list over Deps, with or
\* without repeated entries.
RECURSIVE ListsOver(_, _)
ListsOver(S, n) ==
    IF n = 0 THEN {<<>>}
    ELSE LET shorter == ListsOver(S, n - 1)
         IN  shorter \cup {Append(l, x) : l \in {m \in shorter : Len(m) = n - 1}, x \in S}

DepLists == ListsOver(Deps, NumDeps)

Distinct(l) == \A i, j \in 1..Len(l) : i # j => l[i] # l[j]

\* computation(): what the derivation reads, the current value of each
\* dependency in the order of the list.
Computation(deps, vals) == [i \in 1..Len(deps) |-> vals[deps[i]]]

\* merge(): the observables a forwarding observer is subscribed to, one per
\* argument (the loop of lines 682-687).
MergeOnlyFirst(deps) == SubSeq(deps, 1, 1)
MergeSubscribed(deps) == deps

\* `obs.value = computation()` run once: one evaluation, one write of the
\* derived container (which has no observers of its own here).
Recompute(st, vals) ==
    LET r == Computation(compDeps, vals)
    IN  [evals |-> Append(st.evals, r),
         derived |-> [val |-> r, writes |-> st.derived.writes + 1]]

\* The forwarding observer of merge(): `for (const observer of observers)
\* observer.next(v)`.
RECURSIVE ForwardLoop(_, _, _, _)
ForwardLoop(targets, i, st, vals) ==
    IF i <= Len(targets)
    THEN ForwardLoop(targets, i + 1, Recompute(st, vals), vals)
    ELSE st

\* The setter's notification loop over the observers of one dependency; an
\* observer is the forwarder of merge() or the callback of computed() itself.
RECURSIVE DepNotifyLoop(_, _, _, _)
DepNotifyLoop(obs, i, st, vals) ==
    IF i < Len(obs)
    THEN DepNotifyLoop(obs, i + 1,
                       IF obs[i + 1] = "forward"
                       THEN ForwardLoop(mergeObs, 1, st, vals)
                       ELSE Recompute(st, vals),
                       vals)
    ELSE st

\* How many entries of l are x.
RECURSIVE Occurrences(_, _)
Occurrences(l, x) ==
    IF l = <<>> THEN 0
    ELSE (IF Head(l) = x THEN 1 ELSE 0) + Occurrences(Tail(l), x)

RECURSIVE Repeat(_, _)
Repeat(x, n) == IF n = 0 THEN <<>> ELSE <<x>> \o Repeat(x, n - 1)

CompStart ==
    /\ depVal \in [Deps -> Vals]
    /\ depObs = [d \in Deps |-> <<>>]
    /\ mergeObs = <<>>
    /\ compDeps = <<>>
    /\ built = FALSE
    /\ derived = [val |-> <<>>, writes |-> 0]
    /\ evals = <<>>
    /\ builtWith = depVal
    /\ memberWrites = <<>>

\* computed(dependencies, computation)
Computed(deps) ==
    /\ ~built
    /\ built' = TRUE
    /\ compDeps' = deps
    /\ evals' = <<Computation(deps, depVal)>>
    /\ derived' = [val |-> Computation(deps, depVal), writes |-> 0]
    /\ builtWith' = depVal
    /\ IF Len(deps) = 0
       THEN UNCHANGED <<depObs, mergeObs>>
       ELSE IF Len(deps) = 1
       THEN \* merge() returns observables[0]: the callback goes on it directly
            /\ depObs' = [depObs EXCEPT ![deps[1]] = Append(@, "recompute")]
            /\ UNCHANGED mergeObs
       ELSE /\ depObs' = [d \in Deps |->
                 depObs[d] \o Repeat("forward", Occurrences(MergeSubscribed(deps), d))]
            /\ mergeObs' = <<"recompute">>
    /\ UNCHANGED <<depVal, memberWrites>>
    /\ CompFrame

\* dependency d .value = v
WriteDep(d, v) ==
    /\ built
    /\ Len(memberWrites) < MaxWrites
    /\ LET vals == [depVal EXCEPT ![d] = v]
           st == DepNotifyLoop(depObs[d], 0, [evals |-> evals, derived |-> derived], vals)
       IN  /\ depVal' = vals
           /\ evals' = st.evals
           /\ derived' = st.derived
           /\ memberWrites' = IF \E i \in 1..Len(compDeps) : compDeps[i] = d
                              THEN Append(memberWrites, vals)
                              ELSE memberWrites
    /\ UNCHANGED <<depObs, mergeObs, compDeps, built, builtWith>>
    /\ CompFrame

CompNext ==
    \/ \E deps \in DepLists : Computed(deps)
    \/ \E d \in Deps, v \in Vals : WriteDep(d, v)

------------------------------------------------------------------------------
(* Claims about computed                                                    *)

\* C3: computed(deps, f) with distinct dependencies evaluates f once at
\* construction and once per write to a member of deps, each evaluation seeing
\* the dependencies' values right after that write, and performs one write of
\* the derived container per such write: nothing is coalesced.
C3_OneRecomputationPerWrite ==
    (built /\ Distinct(compDeps)) =>
        /\ evals = <<Computation(compDeps, builtWith)>> \o
                   [k \in 1..Len(memberWrites) |-> Computation(compDeps, memberWrites[k])]
        /\ derived.writes = Len(memberWrites)
        /\ derived.val = evals[Len(evals)]

\* computed([a, b], f), then a write that changes a, then one that changes b:
\* f ran three times, the second run with the new a and the old b.
C3_Witness ==
    /\ built
    /\ compDeps = <<1, 2>>
    /\ Len(memberWrites) = 2
    /\ Len(evals) = 3
    /\ evals[2][1] # evals[1][1]
    /\ evals[2][2] = evals[1][2]
    /\ evals[3][1] = evals[2][1]
    /\ evals[3][2] # evals[2][2]

------------------------------------------------------------------------------
(* The list reconciler map() (src/src/runtime/map.ts:11-303)                *)

\* The values of list elements. 0 stands for an element that renders no node
\* (flatten() of null), 3 for one that renders two nodes.
ListVals == {0, 1, 2, 3}

\* The lists map() is first called with.
InitLists == {l \in ListsOver(ListVals, MaxInit) : Distinct(l)}

\* The items a splice, a push or an unshift inserts, and a whole-list write.
ItemLists == {<<>>, <<9>>, <<0>>, <<9, 8>>}

\* Nodes: <<"el", k, j>> is the j-th node rendered for the item of container k,
\* <<"ip", k, 0>> that item's insertion point, END the insertion point map()
\* appends last.
Marker(k) == <<"ip", k, 0>>
END == Marker(0)
NoNode == <<>>

\* flatten(computeElements(obs, index)): the nodes rendered for container k.
RenderCount(v) == IF v = 0 THEN 0 ELSE IF v = 3 THEN 2 ELSE 1
Flatten(k, v) == [j \in 1..RenderCount(v) |-> <<"el", k, j>>]

\* node.remove() / parent.removeChild(node)
RemoveChild(d, n) == SelectSeq(d, LAMBDA x : x # n)

\* parent.appendChild(n)
AppendChild(d, n) == Append(RemoveChild(d, n), n)

\* parent.insertBefore(n, ref), ref a child of parent
InsertBefore(d, n, ref) ==
    LET d1 == RemoveChild(d, n)
        i == JsIndexOf(d1, ref)
    IN  SubSeq(d1, 1, i) \o <<n>> \o SubSeq(d1, i + 1, Len(d1))

\* ns.forEach(x => parent.insertBefore(x, ref))
RECURSIVE InsertAllBefore(_, _, _)
InsertAllBefore(d, ns, ref) ==
    IF ns = <<>> THEN d
    ELSE InsertAllBefore(InsertBefore(d, Head(ns), ref), Tail(ns), ref)

\* parent.appendChild(n) for every n of ns in order
RECURSIVE AppendAll(_, _)
AppendAll(d, ns) ==
    IF ns = <<>> THEN d
    ELSE AppendAll(AppendChild(d, Head(ns)), Tail(ns))

\* ReactiveItem.destroy(): every node of the item and its insertion point
\* leave the parent.
DestroyItem(d, item) ==
    RemoveChild(SelectSeq(d, LAMBDA x : \A j \in 1..Len(item.elts) : item.elts[j] # x),
                item.insertionPoint)

RECURSIVE DestroyItems(_, _)
DestroyItems(d, items) ==
    IF items = <<>> THEN d
    ELSE DestroyItems(DestroyItem(d, Head(items)), Tail(items))

\* map(), lines 70-88: each element gets a container, an index container, its
\* insertion point appended to the parent and then its nodes; END comes last.
RECURSIVE InitialRender(_, _, _)
InitialRender(vals, i, st) ==
    IF i < Len(vals)
    THEN LET k == i + 1
             elements == Flatten(k, vals[i + 1])
             item == [value |-> k, index |-> i, elts |-> elements,
                      insertionPoint |-> Marker(k)]
         IN  InitialRender(vals, i + 1,
                 [dom |-> st.dom \o <<Marker(k)>> \o elements,
                  values |-> Append(st.values, k),
                  items |-> Append(st.items, item),
                  contVal |-> Append(st.contVal, vals[i + 1])])
    ELSE [st EXCEPT !.dom = Append(@, END)]

\* splice(), lines 98-109: the first node of the first item at or after start
\* that has nodes, or END.
NextSibling(items, start) ==
    LET withNodes == {i \in (start + 1)..Len(items) : items[i].elts # <<>>}
    IN  IF withNodes = {} THEN END
        ELSE items[CHOOSE i \in withNodes : \A j \in withNodes : i <= j].elts[1]

\* splice(), lines 114-132: per new element an insertion point before
\* nextSibling, a container, an index container holding start++ and the
\* rendered nodes before the new insertion point.
RECURSIVE SpliceInsertLoop(_, _, _, _)
SpliceInsertLoop(news, i, nextSibling, st) ==
    IF i < Len(news)
    THEN LET k == Len(st.contVal) + 1
             ip == Marker(k)
             elements == Flatten(k, news[i + 1])
             item == [value |-> k, index |-> st.start, elts |-> elements,
                      insertionPoint |-> ip]
         IN  SpliceInsertLoop(news, i + 1, nextSibling,
                 [dom |-> InsertAllBefore(InsertBefore(st.dom, ip, nextSibling),
                                          elements, ip),
                  start |-> st.start + 1,
                  toInsert |-> Append(st.toInsert, item),
                  conts |-> Append(st.conts, k),
                  contVal |-> Append(st.contVal, news[i + 1])])
    ELSE st

\* splice(reactiveItems, values, start, deleteCount, ...items), lines 91-140.
\* Both array splices of lines 134 and 139 read `start` after the loop above
\* has incremented it.
SpliceResult(items, vals, d, cv, start, deleteCount, news) ==
    LET st == SpliceInsertLoop(news, 0, NextSibling(items, start),
                  [dom |-> d, start |-> start, toInsert |-> <<>>,
                   conts |-> <<>>, contVal |-> cv])
    IN  [items |-> JsSplice(items, st.start, deleteCount, st.toInsert),
         values |-> JsSplice(vals, st.start, deleteCount, st.conts),
         dom |-> DestroyItems(st.dom, JsSpliceRemoved(items, st.start, deleteCount)),
         contVal |-> st.contVal]

\* traps.reverse, lines 179-205.
RECURSIVE ReverseLoop(_, _)
ReverseLoop(i, st) ==
    LET n == Len(st.items)
    IN  IF 2 * i < n
        THEN LET a == st.items[i + 1]
                 b == st.items[n - i]
                 afterA == a.insertionPoint
                 afterB == b.insertionPoint
                 moved == InsertAllBefore(InsertAllBefore(st.dom, a.elts, afterB),
                                          b.elts, afterA)
                 a2 == [a EXCEPT !.insertionPoint = afterB, !.index = n - 1 - i]
                 b2 == [b EXCEPT !.insertionPoint = afterA, !.index = i]
             IN  ReverseLoop(i + 1,
                     [items |-> [st.items EXCEPT ![i + 1] = b2, ![n - i] = a2],
                      values |-> [st.values EXCEPT ![i + 1] = b.value, ![n - i] = a.value],
                      dom |-> moved])
        ELSE st

\* insertionPoint.nextSibling
NextSiblingOf(d, n) ==
    LET i == JsIndexOf(d, n) + 1
    IN  IF i < Len(d) THEN d[i + 1] ELSE NoNode

\* String(x) of a ReactiveItem, which defines no toString of its own.
JsToString(item) == "[object Object]"

\* The code unit of String(v) for a one-digit number v.
DigitCodeUnit(v) == 48 + v

\* What Array.prototype.sort compares two entries by: the comparator given,
\* or with none the order of the entries' strings.
\* traps.sort, line 220: the comparator passed on to the sort of reactiveItems.
ItemCompare(cmp, a, b, cv) ==
    CASE cmp = "ascending" -> cv[a.value] - cv[b.value]
      [] cmp = "descending" -> cv[b.value] - cv[a.value]
      [] OTHER -> IF JsToString(a) = JsToString(b) THEN 0 ELSE 1

\* Array.prototype.sort, a stable sort: x goes after the last entry that does
\* not compare greater than it.
RECURSIVE SortInsertItem(_, _, _, _)
SortInsertItem(sorted, x, cmp, cv) ==
    IF sorted = <<>> THEN <<x>>
    ELSE IF ItemCompare(cmp, sorted[Len(sorted)], x, cv) > 0
         THEN Append(SortInsertItem(SubSeq(sorted, 1, Len(sorted) - 1), x, cmp, cv),
                     sorted[Len(sorted)])
         ELSE Append(sorted, x)

RECURSIVE SortItems(_, _, _, _)
SortItems(items, i, cmp, cv) ==
    IF i = 0 THEN <<>>
    ELSE SortInsertItem(SortItems(items, i - 1, cmp, cv), items[i], cmp, cv)

\* traps.sort, lines 224-238: every item's index is set, its nodes and then its
\* insertion point are moved before END, values[i] is set.
RECURSIVE SortPlaceLoop(_, _)
SortPlaceLoop(i, st) ==
    IF i < Len(st.items)
    THEN LET item == st.items[i + 1]
         IN  SortPlaceLoop(i + 1,
                 [items |-> [st.items EXCEPT ![i + 1].index = i],
                  values |-> [st.values EXCEPT ![i + 1] = item.value],
                  dom |-> InsertBefore(InsertAllBefore(st.dom, item.elts, END),
                                       item.insertionPoint, END)])
    ELSE st

\* The key a Proxy trap receives for proxy[p]: property keys are strings.
PropertyKey(p) == [type |-> "string", index |-> p]
TypeOf(key) == key.type

\* What each operation records: its name and arguments, whether it succeeded,
\* what it returned and the reconciler before it.
Op(name, start, deleteCount, items, ok, result) ==
    [op |-> name, start |-> start, del |-> deleteCount, items |-> items,
     ok |-> ok, result |-> result,
     pre |-> [values |-> values, items |-> reactiveItems, dom |-> dom,
              contVal |-> contVal]]

MapStart ==
    \E l \in InitLists :
        LET st == InitialRender(l, 0, [dom |-> <<>>, values |-> <<>>,
                                      items |-> <<>>, contVal |-> <<>>])
        IN  /\ dom = st.dom
            /\ values = st.values
            /\ reactiveItems = st.items
            /\ contVal = st.contVal
            /\ listVal = [proxy |-> TRUE, plain |-> <<>>]
            /\ nextItem = Len(l) + 1
            /\ mapOps = 0
            /\ mapOp = [op |-> "map", start |-> 0, del |-> 0, items |-> l,
                        ok |-> TRUE, result |-> 0,
                        pre |-> [values |-> <<>>, items |-> <<>>, dom |-> <<>>,
                                 contVal |-> <<>>]]

\* Every operation counts as one step and leaves the other subsystems alone.
MapReady == mapOps < MaxOps

MapStep ==
    /\ mapOps' = mapOps + 1
    /\ nextItem' = Len(contVal') + 1
    /\ MapFrame

ApplySplice(start, deleteCount, news) ==
    LET r == SpliceResult(reactiveItems, values, dom, contVal, start, deleteCount, news)
    IN  /\ reactiveItems' = r.items
        /\ values' = r.values
        /\ dom' = r.dom
        /\ contVal' = r.contVal

\* proxy.splice(start, deleteCount, ...items)
Splice(start, deleteCount, news) ==
    /\ MapReady
    /\ start \in 0..Len(values)
    /\ deleteCount \in 0..(Len(values) - start)
    /\ ApplySplice(start, deleteCount, news)
    /\ mapOp' = Op("splice", start, deleteCount, news, TRUE, 0)
    /\ UNCHANGED listVal
    /\ MapStep

\* proxy.push(...items)
Push(news) ==
    /\ MapReady
    /\ ApplySplice(Len(values), 0, news)
    /\ mapOp' = Op("push", 0, 0, news, TRUE, 0)
    /\ UNCHANGED listVal
    /\ MapStep

\* proxy.unshift(...items)
Unshift(news) ==
    /\ MapReady
    /\ ApplySplice(0, 0, news)
    /\ mapOp' = Op("unshift", 0, 0, news, TRUE, 0)
    /\ UNCHANGED listVal
    /\ MapStep

\* proxy.pop()
Pop ==
    /\ MapReady
    /\ IF Len(reactiveItems) = 0
       THEN UNCHANGED <<reactiveItems, values, dom>>
       ELSE /\ reactiveItems' = SubSeq(reactiveItems, 1, Len(reactiveItems) - 1)
            /\ dom' = DestroyItem(dom, reactiveItems[Len(reactiveItems)])
            /\ values' = SubSeq(values, 1, Len(values) - 1)
    /\ mapOp' = Op("pop", 0, 0, <<>>, TRUE, 0)
    /\ UNCHANGED <<contVal, listVal>>
    /\ MapStep

\* proxy.shift()
Shift ==
    /\ MapReady
    /\ IF Len(reactiveItems) = 0
       THEN UNCHANGED <<reactiveItems, values, dom>>
       ELSE /\ reactiveItems' = Tail(reactiveItems)
            /\ dom' = DestroyItem(dom, Head(reactiveItems))
            /\ values' = Tail(values)
    /\ mapOp' = Op("shift", 0, 0, <<>>, TRUE, 0)
    /\ UNCHANGED <<contVal, listVal>>
    /\ MapStep

\* proxy.reverse()
Reverse ==
    /\ MapReady
    /\ LET nextNode == NextSiblingOf(dom, END)
           st == ReverseLoop(0, [items |-> reactiveItems, values |-> values, dom |-> dom])
       IN  /\ reactiveItems' = st.items
           /\ values' = st.values
           /\ dom' = IF nextNode = NoNode THEN AppendChild(st.dom, END)
                     ELSE InsertBefore(st.dom, END, nextNode)
    /\ mapOp' = Op("reverse", 0, 0, <<>>, TRUE, 0)
    /\ UNCHANGED <<contVal, listVal>>
    /\ MapStep

\* proxy.sort(compareFn), compareFn undefined or a comparator of values
Sort(cmp) ==
    /\ MapReady
    /\ IF Len(reactiveItems) = 0
       THEN UNCHANGED <<reactiveItems, values, dom>>
       ELSE LET st == SortPlaceLoop(0,
                         [items |-> SortItems(reactiveItems, Len(reactiveItems), cmp, contVal),
                          values |-> values, dom |-> dom])
            IN  /\ reactiveItems' = st.items
                /\ values' = st.values
                /\ dom' = st.dom
    /\ mapOp' = Op("sort", 0, 0, <<cmp>>, TRUE, 0)
    /\ UNCHANGED <<contVal, listVal>>
    /\ MapStep

\* proxy[p]: the get trap, lines 264-277
ProxyGet(p) ==
    /\ MapReady
    /\ p \in 0..(Len(values) - 1)
    /\ mapOp' = Op("get", p, 0, <<>>, TRUE, values[p + 1])
    /\ UNCHANGED <<reactiveItems, values, dom, contVal, listVal>>
    /\ MapStep

\* proxy[p] = v: the set trap, lines 279-289
ProxySet(p, v) ==
    /\ MapReady
    /\ p \in 0..(Len(values) - 1)
    /\ IF TypeOf(PropertyKey(p)) # "number"
       THEN /\ mapOp' = Op("set", p, 0, <<v>>, FALSE, 0)
            /\ UNCHANGED contVal
       ELSE /\ mapOp' = Op("set", p, 0, <<v>>, TRUE, 0)
            /\ contVal' = [contVal EXCEPT ![values[p + 1]] = v]
    /\ UNCHANGED <<reactiveItems, values, dom, listVal>>
    /\ MapStep

\* list.value = S: the setter stores S, then the subscriber of lines 297-301
\* runs proxy.splice(0, proxy.length, ...S).
ListWrite(S) ==
    /\ MapReady
    /\ listVal' = [proxy |-> FALSE, plain |-> S]
    /\ ApplySplice(0, Len(values), S)
    /\ mapOp' = Op("listWrite", 0, Len(values), S, TRUE, 0)
    /\ MapStep

\* traps.fill, lines 251-252: `for (i = start; i < end; i++)
\* this[i].value.value = value`; the container values afterwards and the
\* containers whose setter ran, in order.
RECURSIVE FillWholeList(_, _, _, _, _)
FillWholeList(items, i, end, v, st) ==
    IF i < Len(items)
    THEN FillWholeList(items, i + 1, end, v,
             [contVal |-> [st.contVal EXCEPT ![items[i + 1].value] = v],
              written |-> Append(st.written, items[i + 1].value)])
    ELSE st

RECURSIVE FillLoop(_, _, _, _, _)
FillLoop(items, i, end, v, st) ==
    IF i < end
    THEN FillLoop(items, i + 1, end, v,
             [contVal |-> [st.contVal EXCEPT ![items[i + 1].value] = v],
              written |-> Append(st.written, items[i + 1].value)])
    ELSE st

\* proxy.fill(v, start, end)
Fill(v, start, end) ==
    /\ MapReady
    /\ start \in 0..Len(reactiveItems)
    /\ end \in start..Len(reactiveItems)
    /\ LET st == FillLoop(reactiveItems, start, end, v,
                          [contVal |-> contVal, written |-> <<>>])
       IN  /\ contVal' = st.contVal
           /\ mapOp' = Op("fill", start, end, <<v>>, TRUE, st.written)
    /\ UNCHANGED <<reactiveItems, values, dom, listVal>>
    /\ MapStep

\* What a call of traps.copyWithin does to the backing arrays: it copies the
\* range as Array.prototype.copyWithin does (CopyWithinEmulated), or throws
\* at once (line 259).
CopyWithinEmulated(vals, target, start) ==
    [threw |-> FALSE,
     values |-> [i \in 1..Len(vals) |->
                    IF i - 1 >= target /\ (i - 1 - target + start) < Len(vals)
                    THEN vals[i - target + start] ELSE vals[i]]]

CopyWithinTrap(vals, target, start) == [threw |-> TRUE, values |-> vals]

\* proxy.copyWithin(target, start)
CopyWithin(target, start) ==
    /\ MapReady
    /\ LET r == CopyWithinTrap(values, target, start)
       IN  /\ values' = r.values
           /\ mapOp' = Op("copyWithin", target, start, <<>>, ~r.threw, 0)
    /\ UNCHANGED <<reactiveItems, dom, contVal, listVal>>
    /\ MapStep

\* list.value.push(...items): a mutator called on what the container's
\* getter returns (index.ts:398-400), the stand-in or a plain array.
ContainerPush(news) ==
    /\ MapReady
    /\ IF listVal.proxy
       THEN /\ ApplySplice(Len(values), 0, news)
            /\ UNCHANGED listVal
       ELSE /\ listVal' = [listVal EXCEPT !.plain = @ \o news]
            /\ UNCHANGED <<reactiveItems, values, dom, contVal>>
    /\ mapOp' = Op("containerPush", 0, 0, news, TRUE, 0)
    /\ MapStep

MapNext ==
    \/ \E v \in {9}, start \in 0..(MaxInit + MaxOps), end \in 0..(MaxInit + MaxOps) :
          Fill(v, start, end)
    \/ \E target \in 0..MaxInit, start \in 0..MaxInit : CopyWithin(target, start)
    \/ \E start \in 0..(MaxInit + MaxOps), deleteCount \in 0..(MaxInit + MaxOps),
          news \in ItemLists : Splice(start, deleteCount, news)
    \/ \E news \in ItemLists \ {<<>>} : Push(news)
    \/ \E news \in ItemLists \ {<<>>} : Unshift(news)
    \/ Pop
    \/ Shift
    \/ Reverse
    \/ \E cmp \in {"undefined", "ascending", "descending"} : Sort(cmp)
    \/ \E p \in 0..(MaxInit + MaxOps) : ProxyGet(p)
    \/ \E p \in 0..(MaxInit + MaxOps), v \in {9} : ProxySet(p, v)
    \/ \E S \in ItemLists : ListWrite(S)
    \/ \E news \in ItemLists \ {<<>>} : ContainerPush(news)

------------------------------------------------------------------------------
(* Claims about the reconciler                                              *)

\* The element nodes among the parent's children, left to right.
ElementNodes(d) == SelectSeq(d, LAMBDA n : n[1] = "el")

\* The backing sequence: the current value of each position's container.
Contents(vs, cv) == [i \in 1..Len(vs) |-> cv[vs[i]]]

\* The output: what each element node shows, the value of the container it
\* was rendered for.
Output == [i \in 1..Len(ElementNodes(dom)) |-> contVal[ElementNodes(dom)[i][2]]]

\* The output a list of values renders to.
RECURSIVE Rendered(_)
Rendered(l) ==
    IF l = <<>> THEN <<>>
    ELSE Repeat(Head(l), RenderCount(Head(l))) \o Rendered(Tail(l))

\* The node runs of a list of items, one after the other.
RECURSIVE Runs(_)
Runs(items) == IF items = <<>> THEN <<>> ELSE Head(items).elts \o Runs(Tail(items))

RECURSIVE ReverseSeq(_)
ReverseSeq(l) == IF l = <<>> THEN <<>> ELSE Append(ReverseSeq(Tail(l)), Head(l))

\* The standard Array.prototype.sort of a list of one-digit values: by the
\* comparator, or with none by the values' strings.
ValueCompare(cmp, x, y) ==
    CASE cmp = "ascending" -> x - y
      [] cmp = "descending" -> y - x
      [] OTHER -> DigitCodeUnit(x) - DigitCodeUnit(y)

RECURSIVE StdSortInsert(_, _, _)
StdSortInsert(sorted, x, cmp) ==
    IF sorted = <<>> THEN <<x>>
    ELSE IF ValueCompare(cmp, sorted[Len(sorted)], x) > 0
         THEN Append(StdSortInsert(SubSeq(sorted, 1, Len(sorted) - 1), x, cmp),
                     sorted[Len(sorted)])
         ELSE Append(sorted, x)

RECURSIVE StdSort(_, _)
StdSort(l, cmp) ==
    IF l = <<>> THEN <<>>
    ELSE StdSortInsert(StdSort(SubSeq(l, 1, Len(l) - 1), cmp), l[Len(l)], cmp)

PreContents == Contents(mapOp.pre.values, mapOp.pre.contVal)

\* Whether item it of the state before the operation is still an item, with
\* its container and its nodes, and its nodes are in the output.
Survives(it) ==
    /\ \E i \in 1..Len(reactiveItems) :
            /\ reactiveItems[i].value = it.value
            /\ reactiveItems[i].elts = it.elts
    /\ \A j \in 1..Len(it.elts) : JsIndexOf(dom, it.elts[j]) >= 0

\* Whether nothing of item it of the state before is left in the output.
Gone(it) ==
    /\ JsIndexOf(dom, it.insertionPoint) = -1
    /\ \A j \in 1..Len(it.elts) : JsIndexOf(dom, it.elts[j]) = -1

\* C4: splice(start, deleteCount, ...items) with 0 <= start <= length leaves
\* the backing sequence as the standard splice does, keeps the container and
\* the nodes of every item outside the deleted range, removes the deleted
\* items' nodes and markers, and shows the new items at position start.
C4_SpliceAsStandardSplice ==
    mapOp.op = "splice" =>
        LET s == mapOp.start
            e == mapOp.start + mapOp.del
            old == mapOp.pre.items
        IN  /\ Contents(values, contVal) = JsSplice(PreContents, s, mapOp.del, mapOp.items)
            /\ Output = Rendered(JsSplice(PreContents, s, mapOp.del, mapOp.items))
            /\ \A i \in 1..Len(old) : IF i > s /\ i <= e THEN Gone(old[i])
                                      ELSE Survives(old[i])
            /\ SubSeq(values, 1, s) = SubSeq(mapOp.pre.values, 1, s)
            /\ ElementNodes(dom) = Runs(reactiveItems)

\* C5: push(x), unshift(x), pop() and shift() leave the backing sequence and
\* the output as splice(length, 0, x), splice(0, 0, x), splice(length - 1, 1)
\* and splice(0, 1) leave a standard array; pop and shift of an empty list
\* change nothing.
C5_PushUnshiftPopShiftAsSplice ==
    LET n == Len(PreContents)
        expected ==
            CASE mapOp.op = "push" -> JsSplice(PreContents, n, 0, mapOp.items)
              [] mapOp.op = "unshift" -> JsSplice(PreContents, 0, 0, mapOp.items)
              [] mapOp.op = "pop" -> IF n = 0 THEN <<>> ELSE JsSplice(PreContents, n - 1, 1, <<>>)
              [] mapOp.op = "shift" -> JsSplice(PreContents, 0, 1, <<>>)
              [] OTHER -> <<>>
    IN  mapOp.op \in {"push", "unshift", "pop", "shift"} =>
            /\ Contents(values, contVal) = expected
            /\ Output = Rendered(expected)

\* C6: sort() without a comparator and sort(cmp) leave the backing sequence
\* and the output in the order the standard array sort gives the values
\* ([3,1,2] becomes 1,2,3), every item keeping its container and its nodes.
C6_SortAsStandardSort ==
    mapOp.op = "sort" =>
        /\ Contents(values, contVal) = StdSort(PreContents, mapOp.items[1])
        /\ Output = Rendered(StdSort(PreContents, mapOp.items[1]))
        /\ \A i \in 1..Len(mapOp.pre.items) : Survives(mapOp.pre.items[i])
        /\ Len(reactiveItems) = Len(mapOp.pre.items)

\* The node runs of the output in reverse order, each run keeping its own
\* order: the runs of the owners in the order of their last node, backwards.
RECURSIVE RunsReversed(_)
RunsReversed(els) ==
    IF els = <<>> THEN <<>>
    ELSE LET owner == els[Len(els)][2]
         IN  SelectSeq(els, LAMBDA n : n[2] = owner) \o
             RunsReversed(SelectSeq(els, LAMBDA n : n[2] # owner))

\* C7: reverse(), in any state the reconciler's operations reach, creates and
\* destroys no node and no container and leaves the backing sequence and the
\* order of the items' node runs in the output exactly reversed.
C7_ReverseReversesBoth ==
    mapOp.op = "reverse" =>
        /\ values = ReverseSeq(mapOp.pre.values)
        /\ ElementNodes(dom) = RunsReversed(ElementNodes(mapOp.pre.dom))
        /\ {dom[i] : i \in 1..Len(dom)} = {mapOp.pre.dom[i] : i \in 1..Len(mapOp.pre.dom)}
        /\ contVal = mapOp.pre.contVal

\* C8: reading index p gives the container of the item at position p, and
\* assigning v to index p succeeds and sets the value of that item's existing
\* container, replacing no container, item or node.
C8_NumericIndexPassesThrough ==
    /\ mapOp.op = "get" => mapOp.result = reactiveItems[mapOp.start + 1].value
    /\ mapOp.op = "set" =>
            /\ mapOp.ok
            /\ contVal[values[mapOp.start + 1]] = mapOp.items[1]
            /\ values = mapOp.pre.values
            /\ reactiveItems = mapOp.pre.items
            /\ dom = mapOp.pre.dom

\* C9: writing a sequence S to the list container removes every item rendered
\* before and renders exactly the elements of S in order, whatever the old
\* length and the length of S.
C9_ListWriteReplacesAll ==
    mapOp.op = "listWrite" =>
        /\ Contents(values, contVal) = mapOp.items
        /\ Output = Rendered(mapOp.items)
        /\ \A i \in 1..Len(mapOp.pre.items) : Gone(mapOp.pre.items[i])

\* C13: fill(v, start, end) with 0 <= start <= end <= length writes v into the
\* existing container of each item at positions start..end-1 through the
\* notifying setter and changes nothing else: no node, item, container, index
\* or order, and no value outside the range.
C13_FillWritesInPlace ==
    mapOp.op = "fill" =>
        /\ dom = mapOp.pre.dom
        /\ values = mapOp.pre.values
        /\ reactiveItems = mapOp.pre.items
        /\ mapOp.result = SubSeq(values, mapOp.start + 1, mapOp.del)
        /\ \A p \in 1..Len(values) :
               contVal[values[p]] =
                   IF p - 1 >= mapOp.start /\ p - 1 < mapOp.del
                   THEN mapOp.items[1]
                   ELSE mapOp.pre.contVal[values[p]]
        /\ \A k \in 1..Len(contVal) :
               (\A p \in 1..Len(values) : values[p] # k) =>
                   contVal[k] = mapOp.pre.contVal[k]

\* A fill over a proper, non-empty part of a list that an earlier operation
\* has changed.
C13_Witness ==
    /\ mapOp.op = "fill"
    /\ mapOps = 2
    /\ mapOp.start > 0
    /\ mapOp.del > mapOp.start
    /\ mapOp.del < Len(values)
    /\ contVal # mapOp.pre.contVal

\* C14: copyWithin fails at once with an error for all arguments in every
\* state and leaves the backing sequence, the items and the output unchanged.
C14_CopyWithinThrows ==
    mapOp.op = "copyWithin" =>
        /\ ~mapOp.ok
        /\ values = mapOp.pre.values
        /\ reactiveItems = mapOp.pre.items
        /\ dom = mapOp.pre.dom
        /\ contVal = mapOp.pre.contVal

\* copyWithin(0, 1) on a list of at least two items that an earlier operation
\* has changed.
C14_Witness ==
    /\ mapOp.op = "copyWithin"
    /\ mapOps = 2
    /\ mapOp.start = 0
    /\ mapOp.del = 1
    /\ Len(values) >= 2

\* C21: after any sequence of reconciler operations the backing sequence and
\* the live item list have the same length, the i-th backing entry is the
\* value container of the i-th live item, and the items' node runs stand in
\* the output in the items' order.
C21_BackingItemsOutputAgree ==
    /\ Len(values) = Len(reactiveItems)
    /\ \A i \in 1..Len(values) : values[i] = reactiveItems[i].value
    /\ ElementNodes(dom) = Runs(reactiveItems)

\* C22: after any sequence of reconciler operations every live item's index
\* container holds the item's position in the backing sequence.
C22_IndexIsPosition ==
    \A i \in 1..Len(reactiveItems) : reactiveItems[i].index = i - 1

\* C29: once the reconciler is wired, a read of the container's value returns
\* the stand-in, also after a whole-list write, and a mutator called on the
\* container's value is reflected in the backing sequence and in the output.
C29_ContainerKeepsStandIn ==
    /\ listVal.proxy
    /\ mapOp.op = "containerPush" =>
           /\ Len(values) = Len(mapOp.pre.values) + Len(mapOp.items)
           /\ Len(ElementNodes(dom)) =
                  Len(ElementNodes(mapOp.pre.dom)) + Len(Rendered(mapOp.items))

------------------------------------------------------------------------------
(* A node built by the emitted setup code and its release                   *)
(* (src/src/runtime.ts:1096-1172, src/src/runtime/index.ts:498-628).        *)
(* The root is h('div', { title: x, class: x + y }, z) over the captured    *)
(* variables x, y, z. State.visit emits, in this order:                     *)
(*   const subscriptions = []                                               *)
(*   const div = createElement('div',                                       *)
(*       { title: _x, className: computed([_x, _y], () => _x.value + _y.value) }) *)
(*   const inserted = [] ; const ip = createInsertionPoint() ; div.append(ip) *)
(*   const update = () => { inserted.splice(0).forEach(destroy);            *)
(*                          addElement(_z.value, ip, inserted) }            *)
(*   subscriptions.push(_z.subscribe(update)) ; update()                    *)
(*   div.subscriptions = subscriptions ; div.destroy = destroy.bind(div)    *)

Cells == {"x", "y", "z"}
Undefined == <<>>
Defined(v) == <<v>>

\* v.value for the value v handed to an observer: v is a primitive, which has
\* no such property.
ValueMember(v) == Undefined

\* createElement, lines 519-526: setValue for a plain property.
SetProp(st, attr, value) == [st EXCEPT !.props[attr] = value]

\* The update closure: every inserted node is destroyed (removed), then
\* addElement(_z.value, ip, inserted) inserts a new Text before ip.
RunUpdate(st, z) ==
    LET cleared == SelectSeq(st.children,
                       LAMBDA n : \A j \in 1..Len(st.inserted) : st.inserted[j] # n)
        text == <<"text", st.nextText, z>>
    IN  [st EXCEPT !.children = InsertBefore(cleared, text, <<"ip", 0, 0>>),
                   !.inserted = <<text>>,
                   !.nextText = @ + 1]

\* One observer's next(v): the setter createElement subscribed (line 536), the
\* update closure, or the callback of computed() writing the derived container,
\* whose own observers are then notified (the class setter).
RECURSIVE CellNotifyLoop(_, _, _, _, _)
ObserverNext(o, v, st, vals) ==
    CASE o = "setTitle" -> SetProp(st, "title", ValueMember(v))
      [] o = "setClassName" -> SetProp(st, "className", ValueMember(v))
      [] o = "update" -> RunUpdate(st, vals["z"])
      [] o = "forward" -> CellNotifyLoop(mergedObs, 0, v, st, vals)
      [] o = "recompute" ->
            CellNotifyLoop(cellObs["c"], 0, vals["x"] + vals["y"],
                           [st EXCEPT !.c = vals["x"] + vals["y"]], vals)

CellNotifyLoop(obs, i, v, st, vals) ==
    IF i < Len(obs)
    THEN CellNotifyLoop(obs, i + 1, v, ObserverNext(obs[i + 1], v, st, vals), vals)
    ELSE st

NodeStart ==
    /\ phase = "new"
    /\ cellVal \in [Cells \cup {"c"} -> Vals]
    /\ cellVal["c"] = 1
    /\ cellObs = [c \in Cells \cup {"c"} |-> <<>>]
    /\ mergedObs = <<>>
    /\ props = [a \in {"title", "className"} |-> Undefined]
    /\ children = <<>>
    /\ inserted = <<>>
    /\ subscriptions = <<>>
    /\ attached = FALSE
    /\ cellWrites = 0
    /\ atRelease = [props |-> props, children |-> children]

\* The setup statements of the root run, and the node is appended to its parent.
Construct ==
    /\ phase = "new"
    /\ phase' = "built"
    /\ cellVal' = [cellVal EXCEPT !["c"] = cellVal["x"] + cellVal["y"]]
    /\ mergedObs' = <<"recompute">>
    /\ cellObs' = [c \in Cells \cup {"c"} |->
                     CASE c = "x" -> <<"forward", "setTitle">>
                       [] c = "y" -> <<"forward">>
                       [] c = "z" -> <<"update">>
                       [] c = "c" -> <<"setClassName">>]
    /\ props' = [a \in {"title", "className"} |->
                     IF a = "title" THEN Defined(cellVal["x"])
                     ELSE Defined(cellVal["x"] + cellVal["y"])]
    /\ children' = <<(<<"text", 1, cellVal["z"]>>), (<<"ip", 0, 0>>)>>
    /\ inserted' = <<(<<"text", 1, cellVal["z"]>>)>>
    /\ subscriptions' = <<"z">>
    /\ attached' = TRUE
    /\ atRelease' = atRelease
    /\ UNCHANGED cellWrites
    /\ NodeFrame

\* container c .value = v, for a captured variable c
WriteCell(c, v) ==
    /\ phase # "new"
    /\ cellWrites < MaxCellWrites
    /\ cellWrites' = cellWrites + 1
    /\ LET vals == [cellVal EXCEPT ![c] = v]
           st == CellNotifyLoop(cellObs[c], 0, v,
                     [props |-> props, children |-> children, inserted |-> inserted,
                      c |-> cellVal["c"],
                      nextText |-> 2 + cellWrites], vals)
       IN  /\ cellVal' = [vals EXCEPT !["c"] = st.c]
           /\ props' = st.props
           /\ children' = st.children
           /\ inserted' = st.inserted
    /\ UNCHANGED <<phase, cellObs, mergedObs, subscriptions, attached, atRelease>>
    /\ NodeFrame

\* node.destroy(): the node is removed and every entry of node.subscriptions
\* is unsubscribed; the list is emptied.
RECURSIVE UnsubscribeAll(_, _)
UnsubscribeAll(subs, obs) ==
    IF subs = <<>> THEN obs
    ELSE UnsubscribeAll(Tail(subs),
             [obs EXCEPT ![Head(subs)] = UnsubscribeSplice(@, "update")])

Destroy ==
    /\ phase # "new"
    /\ phase' = "released"
    /\ attached' = FALSE
    /\ cellObs' = UnsubscribeAll(subscriptions, cellObs)
    /\ subscriptions' = <<>>
    /\ atRelease' = IF phase = "built" THEN [props |-> props, children |-> children]
                    ELSE atRelease
    /\ UNCHANGED <<cellVal, mergedObs, props, children, inserted, cellWrites>>
    /\ NodeFrame

NodeNext ==
    \/ Construct
    \/ \E c \in Cells, v \in Vals : WriteCell(c, v)
    \/ Destroy

------------------------------------------------------------------------------
(* Claims about release                                                     *)

\* C10: after the release of a node, no write to a container captured during
\* its construction changes a property of the node or inserts or removes a
\* node under it.
C10_NoOutputChangeAfterRelease ==
    phase = "released" =>
        /\ props = atRelease.props
        /\ children = atRelease.children

------------------------------------------------------------------------------
(* Attribute bindings: State.processAttributes (src/src/runtime.ts:786-824) *)
(* over the attribute object of an intrinsic element, then createElement    *)
(* (src/src/runtime/index.ts:498-552) on what was emitted, then writes.     *)
(* The source declares `let x, y` and `const k`.                            *)

\* Bindings of kind let / var / param, which findExternalDependencies captures
\* (line 641), and all names of the source.
ReactiveNames == {"x", "y"}
Names == {"x", "y", "k"}
\* Attribute keys: one that names no variable, one that also names x, and
\* the reference-capture key.
Keys == {"title", "x", "ref"}

\* The value of the StringLiteral / NumericLiteral of the source, of `const k`
\* and of an arrow function (the function object).
LitValue == 7
ConstValue == 5
FunctionObject == 100
\* The node createElement returns.
NodeObject == 200

Lit == [kind |-> "lit", a |-> "", b |-> ""]
Id(n) == [kind |-> "id", a |-> n, b |-> ""]
Sum(m, n) == [kind |-> "sum", a |-> m, b |-> n]
Fn(n) == [kind |-> "fn", a |-> n, b |-> ""]

\* The attribute values of the source: a literal, an identifier, m + n, and
\* the handler () => x++.
AttrExprs ==
    {Lit, Fn("x"), Sum("x", "y"), Sum("x", "k"), Sum("k", "k")}
        \cup {Id(n) : n \in Names}

Attr(key, value) == [key |-> key, value |-> value]

\* Attribute objects: up to MaxAttrs properties with different keys.
\* The value under ref is the identifier of a `let` variable.
AttrObjects ==
    {l \in ListsOver({Attr(key, e) : key \in Keys, e \in AttrExprs}, MaxAttrs) :
        /\ Len(l) >= 1
        /\ \A i, j \in 1..Len(l) : i # j => l[i].key # l[j].key
        /\ \A i \in 1..Len(l) :
               l[i].key = "ref" => \E n \in ReactiveNames : l[i].value = Id(n)}

\* visitElement, lines 909-918: the variables named by a ref property.
RefNames(src) ==
    {n \in ReactiveNames : \E i \in 1..Len(src) : src[i] = Attr("ref", Id(n))}

\* Every Identifier of an expression in traversal order, function bodies
\* included (all = true), and those outside function bodies (all = false).
Identifiers(e, all) ==
    CASE e.kind = "lit" -> <<>>
      [] e.kind = "id" -> <<e.a>>
      [] e.kind = "sum" -> <<e.a, e.b>>
      [] e.kind = "fn" -> IF all THEN <<e.a>> ELSE <<>>

\* What the source expression evaluates to.
Eval(e, env) ==
    CASE e.kind = "lit" -> LitValue
      [] e.kind = "id" -> env[e.a]
      [] e.kind = "sum" -> env[e.a] + env[e.b]
      [] e.kind = "fn" -> FunctionObject

\* The reactive variables the source expression reads when it is evaluated:
\* its dependency set.
SrcDeps(e) == {n \in ReactiveNames : \E i \in 1..Len(Identifiers(e, FALSE)) :
                                         Identifiers(e, FALSE)[i] = n}

\* findExternalDependencies(path, true): every identifier with a binding that
\* is neither const nor module gets an entry.
FindExternalDependencies(ext, e) ==
    ext \cup {n \in ReactiveNames : \E i \in 1..Len(Identifiers(e, TRUE)) :
                                        Identifiers(e, TRUE)[i] = n}

\* findDependencies(path, false, []): the captured identifiers outside function
\* bodies, each once, in traversal order.
RECURSIVE FindDependencies(_, _, _)
FindDependencies(ids, ext, dependencies) ==
    IF ids = <<>> THEN dependencies
    ELSE FindDependencies(Tail(ids), ext,
             IF Head(ids) \in ext /\ JsIndexOf(dependencies, Head(ids)) = -1
             THEN Append(dependencies, Head(ids))
             ELSE dependencies)

\* Lines 801-803: for an Identifier value the entry is looked up under the
\* attribute's key; any other value is searched.
AttrDependencies(a, ext) ==
    IF a.value.kind = "id"
    THEN (IF a.key \in ext THEN <<a.key>> ELSE <<>>)
    ELSE FindDependencies(Identifiers(a.value, FALSE), ext, <<>>)

\* What an attribute's value is replaced by ("removed": the property is gone):
\*   "static"    the expression itself, no container at its top level;
\*   "container" the identifier of a captured variable's container;
\*   "computed"  computed([deps], () => expression over .value).
Static(e) == [kind |-> "static", deps |-> <<>>, expr |-> e]
Container(n) == [kind |-> "container", deps |-> <<n>>, expr |-> Id(n)]
ComputedOf(deps, e) == [kind |-> "computed", deps |-> deps, expr |-> e]
Removed == [kind |-> "removed", deps |-> <<>>, expr |-> Lit]

\* makeComputedValueFromDependencies, lines 737-754.
MakeComputedValueFromDependencies(dependencies, e) ==
    IF Len(dependencies) = 1 /\ e.kind = "id" /\ e.a = dependencies[1]
    THEN Container(dependencies[1])
    ELSE ComputedOf(dependencies, e)

\* The ObjectProperty visitor, lines 788-820, for one attribute.
ProcessAttribute(ext, a) ==
    LET ext1 == FindExternalDependencies(ext, a.value)
        dependencies == AttrDependencies(a, ext1)
    IN  IF a.key = "ref" THEN [ext |-> ext, out |-> Removed]
        ELSE
        [ext |-> ext1,
         out |-> IF dependencies = <<>>
                 THEN (IF a.value.kind = "id" /\ a.value.a \in ext1
                       THEN Container(a.value.a)
                       ELSE Static(a.value))
                 ELSE MakeComputedValueFromDependencies(dependencies, a.value)]

\* path.traverse(visitor): the properties in order.
RECURSIVE ProcessAttributes(_, _, _, _)
ProcessAttributes(src, i, ext, out) ==
    IF i > Len(src) THEN [ext |-> ext, out |-> out]
    ELSE LET r == ProcessAttribute(ext, src[i])
         IN  ProcessAttributes(src, i + 1, r.ext, Append(out, r.out))

\* Observers: <<"set", i>> is the setter createElement subscribes for
\* attribute i (line 536), <<"computed", i>> the callback of computed() for
\* attribute i, <<"forward", i>> the forwarder of its merge().
Setter(i) == <<"set", i>>
ComputedCallback(i) == <<"computed", i>>
Forwarder(i) == <<"forward", i>>

\* Evaluating the emitted attribute object: each computed() call evaluates its
\* computation and subscribes to its dependencies (index.ts:663-687).
RECURSIVE EvalAttrs(_, _, _)
EvalAttrs(em, i, st) ==
    IF i > Len(em) THEN st
    ELSE IF em[i].kind # "computed" THEN EvalAttrs(em, i + 1, st)
    ELSE LET deps == em[i].deps
             obs == IF Len(deps) = 1 THEN ComputedCallback(i) ELSE Forwarder(i)
         IN  EvalAttrs(em, i + 1,
                 [st EXCEPT !.derivedVal[i] = Defined(Eval(em[i].expr, st.env)),
                            !.contObs = [n \in DOMAIN st.contObs |->
                                st.contObs[n] \o
                                    Repeat(obs, Occurrences(deps, n))]])

\* createElement's loop over attrs, lines 513-537.
RECURSIVE CreateElementLoop(_, _, _)
CreateElementLoop(em, i, st) ==
    IF i > Len(em) THEN st
    ELSE CreateElementLoop(em, i + 1,
        CASE em[i].kind = "removed" -> st
          [] em[i].kind = "static" ->
                [st EXCEPT !.props[i] = Defined(Eval(em[i].expr, st.env))]
          [] em[i].kind = "container" ->
                [st EXCEPT !.props[i] = Defined(st.env[em[i].deps[1]]),
                           !.contObs[em[i].deps[1]] = Append(@, Setter(i))]
          [] em[i].kind = "computed" ->
                [st EXCEPT !.props[i] = st.derivedVal[i],
                           !.derivedObs[i] = Append(@, Setter(i))])

\* The notification loop of the class setter over a list of observers, v the
\* value handed to next().
RECURSIVE AttrNotifyLoop(_, _, _, _, _)
AttrObserverNext(o, v, em, st) ==
    IF o[1] = "set"
    THEN [st EXCEPT !.props[o[2]] = ValueMember(v)]
    ELSE LET c == Eval(em[o[2]].expr, st.env)
         IN  AttrNotifyLoop(st.derivedObs[o[2]], 0, c, em,
                 [st EXCEPT !.derivedVal[o[2]] = Defined(c)])

AttrNotifyLoop(obs, i, v, em, st) ==
    IF i < Len(obs)
    THEN AttrNotifyLoop(obs, i + 1, v, em, AttrObserverNext(obs[i + 1], v, em, st))
    ELSE st

AttrStart ==
    /\ attrSrc \in AttrObjects
    /\ attrEnv \in {env \in [Names -> Vals \cup {ConstValue}] :
                        /\ env["k"] = ConstValue
                        /\ \A n \in ReactiveNames : env[n] \in Vals}
    /\ plainVal = attrEnv
    /\ extDeps = {}
    /\ emitted = <<>>
    /\ attrPhase = "source"
    /\ elProps = <<>>
    /\ contObs = [n \in ReactiveNames |-> <<>>]
    /\ derivedVal = <<>>
    /\ derivedObs = <<>>
    /\ attrWrites = 0
    /\ attrOp = [op |-> "none", name |-> "", changed |-> FALSE, read |-> 0]

\* processAttributes(attrs) of visitElement (line 921).
CompileAttributes ==
    /\ attrPhase = "source"
    /\ LET r == ProcessAttributes(attrSrc, 1, extDeps, <<>>)
       IN  /\ extDeps' = r.ext
           /\ emitted' = r.out
    /\ attrPhase' = "compiled"
    /\ attrOp' = [op |-> "compile", name |-> "", changed |-> FALSE, read |-> 0]
    /\ UNCHANGED <<attrSrc, attrEnv, plainVal, elProps, contObs, derivedVal, derivedObs,
                   attrWrites>>
    /\ AttrFrame

\* The emitted statements run: first `const _n = observable(n)` for every
\* captured n (visit, lines 1119-1127), which hands the container the
\* variable's value of that moment, then `const el = createElement(tag,
\* { ... })`, or `n = createElement(...)` when the element has ref={n}
\* (visitElement, lines 949-958): an assignment to the variable of the source.
CreateElement ==
    /\ attrPhase = "compiled"
    /\ LET n == Len(emitted)
           st0 == [env |-> attrEnv,
                   props |-> [i \in 1..n |-> Undefined],
                   contObs |-> contObs,
                   derivedVal |-> [i \in 1..n |-> Undefined],
                   derivedObs |-> [i \in 1..n |-> <<>>]]
           st == CreateElementLoop(emitted, 1, EvalAttrs(emitted, 1, st0))
       IN  /\ elProps' = st.props
           /\ contObs' = st.contObs
           /\ derivedVal' = st.derivedVal
           /\ derivedObs' = st.derivedObs
    /\ attrPhase' = "created"
    /\ plainVal' = [n \in Names |->
                        IF n \in RefNames(attrSrc) THEN NodeObject ELSE plainVal[n]]
    /\ attrOp' = [op |-> "create", name |-> "", changed |-> FALSE, read |-> 0]
    /\ UNCHANGED <<attrSrc, attrEnv, extDeps, emitted, attrWrites>>
    /\ AttrFrame

\* The assignment `n = v` of the source: `_n.value = v` when n is captured
\* (replaceReactiveAccesses), the plain assignment otherwise.
WriteVariable(n, v) ==
    /\ attrPhase = "created"
    /\ attrWrites < MaxAttrWrites
    /\ attrWrites' = attrWrites + 1
    /\ LET env == [attrEnv EXCEPT ![n] = v]
           st0 == [env |-> env, props |-> elProps, contObs |-> contObs,
                   derivedVal |-> derivedVal, derivedObs |-> derivedObs]
           st == IF n \in extDeps
                 THEN AttrNotifyLoop(contObs[n], 0, v, emitted, st0)
                 ELSE st0
       IN  /\ attrEnv' = env
           /\ elProps' = st.props
           /\ derivedVal' = st.derivedVal
    /\ plainVal' = IF n \in extDeps THEN plainVal ELSE [plainVal EXCEPT ![n] = v]
    /\ attrOp' = [op |-> "write", name |-> n, changed |-> attrEnv[n] # v, read |-> 0]
    /\ UNCHANGED <<attrSrc, extDeps, emitted, attrPhase, contObs, derivedObs>>
    /\ AttrFrame

\* The handler of attribute i is called: its body reads its variable, which
\* replaceReactiveAccesses (all = true) rewrote to `_n.value` when n is
\* captured.
InvokeHandler(i) ==
    /\ attrPhase = "created"
    /\ i \in 1..Len(attrSrc)
    /\ attrSrc[i].value.kind = "fn"
    /\ attrSrc[i].key # "ref"
    /\ LET n == attrSrc[i].value.a
       IN  attrOp' = [op |-> "handler", name |-> n, changed |-> FALSE,
                      read |-> IF n \in extDeps THEN attrEnv[n] ELSE plainVal[n]]
    /\ UNCHANGED <<attrSrc, attrEnv, plainVal, extDeps, emitted, attrPhase, elProps,
                   contObs, derivedVal, derivedObs, attrWrites>>
    /\ AttrFrame

AttrNext ==
    \/ CompileAttributes
    \/ CreateElement
    \/ \E n \in ReactiveNames, v \in Vals : WriteVariable(n, v)
    \/ \E i \in 1..MaxAttrs : InvokeHandler(i)

------------------------------------------------------------------------------
(* Claims about attribute bindings                                          *)

\* Whether some observer anywhere was subscribed for attribute i.
SubscribedFor(i) ==
    \/ \E n \in ReactiveNames : \E j \in 1..Len(contObs[n]) : contObs[n][j][2] = i
    \/ derivedObs[i] # <<>>

\* C11: for an attribute whose expression has a dependency set D with at least
\* one member, after a write of a new value to a member of D the element's
\* bound property is the expression evaluated with the latest values.
C11_BoundPropertyFollowsWrites ==
    (attrPhase = "created" /\ attrOp.op = "write" /\ attrOp.changed) =>
        \A i \in 1..Len(attrSrc) :
            (attrSrc[i].key # "ref" /\ attrOp.name \in SrcDeps(attrSrc[i].value)) =>
                elProps[i] = Defined(Eval(attrSrc[i].value, attrEnv))

\* C12: an attribute whose expression has no dependency is emitted as it is,
\* not wrapped in a computed derivation, gets no subscription, starts as the
\* static evaluation of the expression and is changed by no later write.
C12_StaticAttributeUnbound ==
    \A i \in 1..Len(attrSrc) :
        (attrSrc[i].key # "ref" /\ SrcDeps(attrSrc[i].value) = {}) =>
            /\ attrPhase # "source" => emitted[i].kind = "static"
            /\ attrPhase = "created" =>
                   /\ ~SubscribedFor(i)
                   /\ elProps[i] = Defined(Eval(attrSrc[i].value, attrEnv))

\* The dependencies an emitted attribute value is built over, as a set.
EmittedDeps(i) == {emitted[i].deps[j] : j \in 1..Len(emitted[i].deps)}

\* C23: the dependency set used for an attribute is exactly the set of captured
\* variables its value expression reads outside function bodies, whatever its
\* key; a non-empty set yields a computed derivation over exactly that set, or
\* the container itself when the value is just that variable.
C23_DependenciesAreThoseRead ==
    attrPhase # "source" =>
        \A i \in 1..Len(attrSrc) :
            attrSrc[i].key # "ref" =>
                /\ EmittedDeps(i) = SrcDeps(attrSrc[i].value)
                /\ SrcDeps(attrSrc[i].value) # {} =>
                       emitted[i].kind =
                           IF attrSrc[i].value.kind = "id" THEN "container"
                           ELSE "computed"

\* C17: the variable named by ref holds the created node once the element's
\* construction statement has run, and a handler of the same tree that reads
\* that variable observes the node, not the value from before construction.
C17_RefReadInHandlerIsNode ==
    /\ (attrPhase = "created" /\ attrWrites = 0) =>
           \A n \in RefNames(attrSrc) : plainVal[n] = NodeObject
    /\ (attrOp.op = "handler" /\ attrWrites = 0 /\ attrOp.name \in RefNames(attrSrc)) =>
           attrOp.read = NodeObject

------------------------------------------------------------------------------
(* Compilation of one root call: State.visit and State.visitElement         *)
(* (src/src/runtime.ts:843-1215), and the emitted statements at run time.   *)

\* The children of the root call: a string literal, a nested intrinsic call
\* h('span', null), an expression over constants, an expression that reads a
\* variable of the enclosing function.
ChildKinds == {"text", "element", "static", "dynamic"}

Trees ==
    [tag : {"intrinsic", "component"}, attrs : {"null", "object"},
     children : ListsOver(ChildKinds, MaxChildren)]

\* opts.runtime, ASSERTIONS (process.env.NODE_ENV != 'production', line 260),
\* and whether a statement or a function is met first going outward.
\* What an ancestor of the root call may be: another expression or part of
\* one, a statement, a function expression or arrow, a function declaration
\* (the call is a default value of a parameter).
AncestorKinds == {"other", "statement", "function", "functionDeclaration"}

\* The ancestors from the call outward as far as the walk of visit looks:
\* ancestors that are neither function nor statement, then the first that is
\* one, if the top of the program does not come first.
Ancestors ==
    {as \in UNION {[1..n -> AncestorKinds] : n \in 0..MaxAncestors} :
        \A i \in 1..Len(as) - 1 : as[i] = "other"}

Options ==
    [runtime : BOOLEAN, assertions : BOOLEAN, ancestors : Ancestors]

\* An emitted statement: its kind, the child of the root it was emitted for
\* (0: the root itself) and what it appends or calls.
Stmt(k, c, x) == [k |-> k, c |-> c, x |-> x]

\* makeRuntimeMemberExpression, lines 455-463, on the emission so far.
NoAssertionCheck(es, method, o) ==
    IF es.threw THEN es ELSE [es EXCEPT !.requested = @ \cup {method}]

MakeRuntimeMemberExpression(es, method, o) ==
    IF es.threw THEN es
    ELSE IF o.assertions /\ ~o.runtime /\ method # "createElement"
         THEN [es EXCEPT !.threw = TRUE, !.requested = @ \cup {method}]
         ELSE [es EXCEPT !.requested = @ \cup {method}]

\* this.stmts.push(s), this.stmts.unshift(s); nothing runs after a throw.
PushStmt(es, s) == IF es.threw THEN es ELSE [es EXCEPT !.stmts = Append(@, s)]
UnshiftStmt(es, s) == IF es.threw THEN es ELSE [es EXCEPT !.stmts = <<s>> \o @]

\* pushToParent, lines 852-865: parent.append(x), or children.value.push(x)
\* under a component compiled with the runtime.
PushToParent(es, c, x, viaChildren) ==
    PushStmt(es, Stmt(IF viaChildren THEN "push" ELSE "append", c, x))

\* visitElement for child c of the root, lines 879-1089.
VisitChild(es, kind, c, o, viaChildren) ==
    CASE kind = "text" -> PushToParent(es, c, "text", viaChildren)
      [] kind = "element" ->
            PushToParent(
                PushStmt(MakeRuntimeMemberExpression(es, "createElement", o),
                         Stmt("create", c, "createElement")),
                c, "element", viaChildren)
      [] kind \in {"static", "dynamic"} ->
            IF o.runtime /\ kind = "dynamic"
            THEN LET e1 == PushStmt(es, Stmt("declInserted", c, ""))
                     e2 == PushStmt(MakeRuntimeMemberExpression(e1, "createInsertionPoint", o),
                                    Stmt("declInsertionPoint", c, ""))
                     e3 == PushToParent(e2, c, "ip", viaChildren)
                     e4 == IF viaChildren THEN e3
                           ELSE MakeRuntimeMemberExpression(e3, "addElement", o)
                     e5 == PushStmt(MakeRuntimeMemberExpression(e4, "destroy", o),
                                    Stmt("declUpdate", c, ""))
                     e6 == PushStmt(e5, Stmt("subscribe", c, ""))
                 IN  PushStmt(e6, Stmt("callUpdate", c, ""))
            ELSE LET e1 == IF o.runtime
                           THEN MakeRuntimeMemberExpression(es, "addElement", o)
                           ELSE IF es.addFunction THEN es
                           ELSE [UnshiftStmt(es, Stmt("declAddFunction", 0, ""))
                                    EXCEPT !.addFunction = TRUE]
                 IN  PushStmt(e1, Stmt("addElement", c,
                                       IF o.runtime THEN "runtime" ELSE "emitted"))

RECURSIVE VisitChildren(_, _, _, _, _)
VisitChildren(es, kinds, c, o, viaChildren) ==
    IF c > Len(kinds) THEN es
    ELSE VisitChildren(VisitChild(es, kinds[c], c, o, viaChildren),
                       kinds, c + 1, o, viaChildren)

\* visit, lines 1096-1180: the statements of the root, or a throw.
VisitRoot(t, o) ==
    LET intrinsic == t.tag = "intrinsic"
        attrsVar == ~o.runtime /\ t.attrs # "null"
        childrenVar == o.runtime /\ ~intrinsic
        e0 == [stmts |-> <<Stmt("declSubscriptions", 0, "")>>, threw |-> FALSE,
               requested |-> {}, addFunction |-> FALSE]
        e1 == IF attrsVar THEN PushStmt(e0, Stmt("declAttrs", 0, "")) ELSE e0
        e2 == IF o.runtime \/ intrinsic
              THEN PushStmt(MakeRuntimeMemberExpression(e1, "createElement", o),
                            Stmt("create", 0, "createElement"))
              ELSE PushStmt(e1, Stmt("create", 0, "componentCall"))
        e3 == IF childrenVar
              THEN PushStmt(MakeRuntimeMemberExpression(
                                PushStmt(MakeRuntimeMemberExpression(e2, "Observable", o),
                                         Stmt("declChildren", 0, "")),
                                "insertChildren", o),
                            Stmt("insertChildren", 0, ""))
              ELSE e2
        e4 == IF attrsVar THEN PushStmt(e3, Stmt("setAttributeLoop", 0, "")) ELSE e3
        e5 == VisitChildren(e4, t.children, 1, o, childrenVar)
        e6 == IF o.runtime /\ \E c \in 1..Len(t.children) : t.children[c] = "dynamic"
              THEN UnshiftStmt(MakeRuntimeMemberExpression(e5, "Observable", o),
                               Stmt("declWrappers", 0, ""))
              ELSE e5
    IN  IF intrinsic
        THEN LET e7 == MakeRuntimeMemberExpression(e6, "destroy", o)
             IN  PushStmt(PushStmt(e7, Stmt("setSubscriptions", 0, "")),
                          Stmt("setDestroy", 0, ""))
        ELSE PushStmt(e6, Stmt("pushSubscriptions", 0, ""))

\* Path.isFunction() and Path.isStatement() of an ancestor: a function
\* declaration is both.
IsFunction(a) == a \in {"function", "functionDeclaration"}

IsStatement(a) == a \in {"statement", "functionDeclaration"}

\* A walk that asks each ancestor for a statement before asking for a
\* function.
RECURSIVE StatementFirst(_, _)
StatementFirst(as, i) ==
    IF i > Len(as) THEN 0
    ELSE IF IsStatement(as[i]) THEN i
    ELSE IF IsFunction(as[i]) THEN 0
    ELSE StatementFirst(as, i + 1)

\* The loop of visit, lines 1184-1214, from ancestor i outward: 0 when the top
\* of the program or a function comes first (the closure is used), else the
\* position of the statement the emitted statements are inserted before.
RECURSIVE FindParent(_, _)
FindParent(as, i) ==
    IF i > Len(as) \/ IsFunction(as[i]) THEN 0
    ELSE IF IsStatement(as[i]) THEN i
    ELSE FindParent(as, i + 1)

\* visit, lines 1183-1215: where the statements go and what replaces the call.
Placement(es, o) ==
    IF es.threw THEN [replaced |-> "call", inserted |-> <<>>, body |-> <<>>,
               returns |-> "nothing", before |-> 0]
    ELSE LET k == FindParent(o.ancestors, 1)
         IN  IF k = 0
             THEN [replaced |-> "closure", inserted |-> <<>>, body |-> es.stmts,
                   returns |-> "varName", before |-> 0]
             ELSE [replaced |-> "identifier", inserted |-> es.stmts, body |-> <<>>,
                   returns |-> "nothing", before |-> k]

\* new Observable(item), map.ts:121-123: what children.value holds for a node.
Wrapped(node) == <<"Observable", node>>

\* The update closure of dynamic child c (replaceElementsInParent, lines
\* 867-877). Under an intrinsic parent: every inserted node is destroyed and
\* addElement puts the new node before the insertion point. Under a component:
\* children.value.splice(children.value.indexOf(ip) - inserted.length,
\* inserted.length, expr); children.value is the reconciler's stand-in and
\* holds the containers of the pushed nodes, and a splice from a negative start
\* reads reactiveItems[start].elts of undefined (map.ts:100-101) and throws.
\* The expression evaluates to rs.yield nodes (none for null, several for an
\* array), which addElement inserts one by one (index.ts:575-592).
Update(rs, c, viaChildren) ==
    LET nodes == [j \in 1..rs.yield |-> <<"expr", c, rs.gen, j>>]
        cleared == SelectSeq(rs.dom,
                       LAMBDA n : \A j \in 1..Len(rs.inserted[c]) : rs.inserted[c][j] # n)
        start == JsIndexOf(rs.values, Marker(c)) - Len(rs.inserted[c])
    IN  IF ~viaChildren
        THEN [rs EXCEPT !.dom = InsertAllBefore(cleared, nodes, Marker(c)),
                        !.inserted[c] = nodes,
                        !.last[c] = nodes,
                        !.gen = @ + 1]
        ELSE IF start < 0
             THEN [rs EXCEPT !.threw = TRUE, !.last[c] = nodes, !.gen = @ + 1]
             ELSE [rs EXCEPT !.dom = InsertAllBefore(rs.dom, nodes, END),
                             !.values = JsSplice(@, start, Len(rs.inserted[c]),
                                                 <<Wrapped(nodes)>>),
                             !.last[c] = nodes,
                             !.gen = @ + 1]

\* One emitted statement at run time; after a throw nothing runs.
ExecStmt(rs, s, o, viaChildren) ==
    IF rs.threw THEN rs
    ELSE CASE s.k = "insertChildren" -> [rs EXCEPT !.dom = AppendChild(@, END)]
           [] s.k = "append" -> [rs EXCEPT !.dom = AppendChild(@, <<s.x, s.c, 0>>)]
           [] s.k = "push" ->
                 [rs EXCEPT !.dom = InsertBefore(@, <<s.x, s.c, 0>>, END),
                            !.values = Append(@, Wrapped(<<s.x, s.c, 0>>))]
           [] s.k = "addElement" ->
                 \* addElement(<value>, parent); the value is null (no
                 \* node), one element, or an array of several. The runtime's
                 \* addElement(elt, insertionPoint) appends every node of the
                 \* value to the parent. The emitted (parent, elt) => ... binds
                 \* its parent to the value and its elt to the parent node,
                 \* which is neither null nor an array, and runs
                 \* value.append(parentNode): a TypeError on null and on an
                 \* array, and on an element the parent goes under the value.
                 LET nodes == [j \in 1..rs.yield |-> <<"expr", s.c, 0, j>>]
                 IN  IF s.x = "runtime"
                     THEN [rs EXCEPT !.dom = AppendAll(@, nodes),
                                     !.last[s.c] = nodes]
                     ELSE IF rs.yield # 1
                          THEN [rs EXCEPT !.threw = TRUE, !.last[s.c] = nodes]
                          ELSE [rs EXCEPT !.rootUnder = s.c, !.last[s.c] = nodes]
           [] s.k = "callUpdate" -> Update(rs, s.c, viaChildren)
           [] s.k = "setDestroy" ->
                 \* document.destroy is undefined without the runtime
                 IF o.runtime THEN rs ELSE [rs EXCEPT !.threw = TRUE]
           [] OTHER -> rs

RECURSIVE ExecStmts(_, _, _, _, _)
ExecStmts(rs, ss, i, o, viaChildren) ==
    IF i > Len(ss) THEN rs
    ELSE ExecStmts(ExecStmt(rs, ss[i], o, viaChildren), ss, i + 1, o, viaChildren)

VisitStart ==
    /\ tree \in Trees
    /\ opts \in Options
    /\ visitPhase = "source"
    /\ stmts = <<>>
    /\ program = [replaced |-> "call", inserted |-> <<>>, body |-> <<>>,
               returns |-> "nothing", before |-> 0]
    /\ requested = {}
    /\ run = [dom |-> <<>>, inserted |-> [c \in 1..MaxChildren |-> <<>>],
              last |-> [c \in 1..MaxChildren |-> <<>>], yield |-> 1, rootUnder |-> 0,
              values |-> <<>>, threw |-> FALSE, gen |-> 1]
    /\ renders = 0

\* state.visit(path) of the CallExpression visitor.
Visit ==
    /\ visitPhase = "source"
    /\ LET es == VisitRoot(tree, opts)
       IN  /\ stmts' = es.stmts
           /\ requested' = es.requested
           /\ program' = Placement(es, opts)
           /\ visitPhase' = IF es.threw THEN "threw" ELSE "compiled"
    /\ UNCHANGED <<tree, opts, run, renders>>
    /\ VisitFrame

\* The emitted statements run; every dynamic child's expression evaluates to
\* n nodes.
RunSetup(n) ==
    /\ visitPhase = "compiled"
    /\ visitPhase' = "ran"
    /\ run' = ExecStmts([run EXCEPT !.yield = n], program.inserted \o program.body,
                        1, opts, opts.runtime /\ tree.tag = "component")
    /\ UNCHANGED <<tree, opts, stmts, program, requested, renders>>
    /\ VisitFrame

\* A write to the variable dynamic child c reads: its update closure runs and
\* the expression evaluates to n nodes.
Rerender(c, n) ==
    /\ visitPhase = "ran"
    /\ renders < MaxRerenders
    /\ c \in 1..Len(tree.children)
    /\ opts.runtime
    /\ tree.children[c] = "dynamic"
    /\ renders' = renders + 1
    /\ run' = Update([run EXCEPT !.threw = FALSE, !.yield = n], c,
                     tree.tag = "component")
    /\ UNCHANGED <<tree, opts, visitPhase, stmts, program, requested>>
    /\ VisitFrame

VisitNext ==
    \/ Visit
    \/ \E n \in 0..MaxNodes : RunSetup(n)
    \/ \E c \in 1..MaxChildren, n \in 0..MaxNodes : Rerender(c, n)

------------------------------------------------------------------------------
(* Claims about compilation                                                 *)

\* C15: with the runtime disabled, a root call with an intrinsic tag, null or
\* object attributes, literal text children and nested intrinsic children
\* compiles without error to document.createElement calls, a setAttribute loop
\* and append statements only, and yields one node reference.
C15_NoRuntimeIntrinsicCompiles ==
    (/\ visitPhase # "source"
     /\ ~opts.runtime
     /\ tree.tag = "intrinsic"
     /\ \A c \in 1..Len(tree.children) : tree.children[c] \in {"text", "element"}) =>
        /\ visitPhase # "threw"
        /\ program.replaced \in {"identifier", "closure"}
        /\ \A i \in 1..Len(stmts) :
               stmts[i].k \in {"create", "declAttrs", "setAttributeLoop", "append"}

\* C16 as stated: with the runtime disabled, any request for a runtime helper
\* other than createElement raises an error at once and aborts the compilation
\* of the root: the call is not replaced and no statement is inserted.
C16_Original ==
    (/\ visitPhase # "source"
     /\ ~opts.runtime
     /\ requested \ {"createElement"} # {}) =>
        /\ visitPhase = "threw"
        /\ program = [replaced |-> "call", inserted |-> <<>>, body |-> <<>>,
               returns |-> "nothing", before |-> 0]

\* C16, amended: the same when assertions are enabled (NODE_ENV is not
\* 'production'); the first such request is then also the last.
C16_HelperRequestAborts ==
    (/\ visitPhase # "source"
     /\ ~opts.runtime
     /\ opts.assertions
     /\ requested \ {"createElement"} # {}) =>
        /\ visitPhase = "threw"
        /\ Cardinality(requested \ {"createElement"}) = 1
        /\ program = [replaced |-> "call", inserted |-> <<>>, body |-> <<>>,
               returns |-> "nothing", before |-> 0]

\* A root with two children whose compilation threw on the request for
\* destroy, with statements pending.
C16_Witness ==
    /\ visitPhase = "threw"
    /\ ~opts.runtime
    /\ opts.assertions
    /\ "destroy" \in requested
    /\ Len(tree.children) = 2
    /\ Len(stmts) > 2
    /\ program.replaced = "call"

\* The children whose content is under the root, left to right: every node
\* but the insertion points.
ContentOrder(d) ==
    LET content == SelectSeq(d, LAMBDA n : n[1] # "ip")
    IN  [i \in 1..Len(content) |-> content[i][2]]

\* The children's indices in source order, each as many times as the child
\* has nodes: one, or for an expression child what its last evaluation
\* yielded.
RECURSIVE ExpectedOrder(_)
ExpectedOrder(c) ==
    IF c > Len(tree.children) THEN <<>>
    ELSE Repeat(c, IF tree.children[c] \in {"static", "dynamic"}
                   THEN Len(run.last[c]) ELSE 1) \o ExpectedOrder(c + 1)

\* C26: once a root call is compiled, if the first function or statement
\* among its ancestors is a function, or there is none up to the top of the
\* program, the call is replaced by an immediately invoked closure whose body
\* is the emitted statements in order followed by a return of the root
\* node's variable; otherwise the emitted statements are inserted in order
\* before the nearest enclosing statement and the call is replaced by the
\* root node's variable.
C26_PlacementFollowsContext ==
    visitPhase \in {"compiled", "ran"} =>
        LET as == opts.ancestors
            near == {i \in 1..Len(as) : as[i] # "other"}
            first == IF near = {} THEN 0
                     ELSE CHOOSE i \in near : \A j \in near : i <= j
        IN  IF first = 0 \/ as[first] \in {"function", "functionDeclaration"}
            THEN /\ program.replaced = "closure"
                 /\ program.body = stmts
                 /\ program.returns = "varName"
                 /\ program.inserted = <<>>
            ELSE /\ program.replaced = "identifier"
                 /\ program.inserted = stmts
                 /\ program.before = first
                 /\ as[program.before] = "statement"
                 /\ program.body = <<>>

\* The closure is reached with statements to place, under a function
\* declaration whose parameter's default value is the call.
C26_Witness ==
    /\ visitPhase = "compiled"
    /\ Len(stmts) > 3
    /\ opts.ancestors = <<"other", "functionDeclaration">>
    /\ program.replaced = "closure"
    /\ program.body = stmts

\* The generated identifier an emitted statement declares, if any: <<what, c>>
\* with c the child it belongs to, 0 for the root.
Declares(s) ==
    CASE s.k = "declSubscriptions" -> {<<"subscriptions", 0>>}
      [] s.k = "declAttrs" -> {<<"attrs", 0>>}
      [] s.k = "create" -> {<<"node", s.c>>}
      [] s.k = "declChildren" -> {<<"children", 0>>}
      [] s.k = "declInserted" -> {<<"inserted", s.c>>}
      [] s.k = "declInsertionPoint" -> {<<"insertionPoint", s.c>>}
      [] s.k = "declUpdate" -> {<<"update", s.c>>}
      [] s.k = "declAddFunction" -> {<<"addElement", 0>>}
      [] s.k = "declWrappers" -> {<<"wrappers", 0>>}
      [] OTHER -> {}

\* The generated identifiers an emitted statement of root t mentions, the
\* body of an update closure included.
Reads(s, t, o) ==
    LET childrenVar == o.runtime /\ t.tag = "component"
        parent == IF childrenVar THEN <<"children", 0>> ELSE <<"node", 0>>
    IN  CASE s.k = "create" ->
                 IF s.c # 0 THEN {}
                 ELSE IF childrenVar THEN {<<"children", 0>>}
                 ELSE IF s.x = "componentCall" /\ t.attrs # "null" THEN {<<"attrs", 0>>}
                 ELSE {}
          [] s.k = "insertChildren" -> {<<"node", 0>>, <<"children", 0>>}
          [] s.k = "setAttributeLoop" -> {<<"attrs", 0>>, <<"node", 0>>}
          [] s.k \in {"append", "push"} ->
                 {parent} \cup (CASE s.x = "element" -> {<<"node", s.c>>}
                                  [] s.x = "ip" -> {<<"insertionPoint", s.c>>}
                                  [] OTHER -> {})
          [] s.k = "declUpdate" ->
                 {<<"inserted", s.c>>, <<"insertionPoint", s.c>>, <<"wrappers", 0>>}
                     \cup (IF childrenVar THEN {<<"children", 0>>} ELSE {})
          [] s.k = "subscribe" ->
                 {<<"subscriptions", 0>>, <<"update", s.c>>, <<"wrappers", 0>>}
          [] s.k = "callUpdate" -> {<<"update", s.c>>}
          [] s.k = "addElement" ->
                 {<<"node", 0>>} \cup (IF s.x = "emitted" THEN {<<"addElement", 0>>} ELSE {})
          [] s.k \in {"setSubscriptions", "pushSubscriptions"} ->
                 {<<"node", 0>>, <<"subscriptions", 0>>}
          [] s.k = "setDestroy" -> {<<"node", 0>>}
          [] OTHER -> {}

\* C30: in the statements emitted for a root every generated identifier is
\* declared by a statement that precedes every statement mentioning it; the
\* children container handed to a component's construction call is declared
\* before that call.
C30_DeclaredBeforeRead ==
    visitPhase \in {"compiled", "ran"} =>
        \A j \in 1..Len(stmts) :
            \A id \in Reads(stmts[j], tree, opts) :
                \E i \in 1..(j - 1) : id \in Declares(stmts[i])

\* C27: without the runtime, once the emitted statements ran, every
\* expression child's value is under the parent: nothing for null, the nodes
\* of an array in order, the node otherwise; no call of the emitted helper
\* failed and the parent was never put under a value.
C27_EmittedHelperAppendsValue ==
    (visitPhase = "ran" /\ ~opts.runtime) =>
        /\ run.rootUnder = 0
        /\ \A c \in 1..Len(tree.children) :
               tree.children[c] \in {"static", "dynamic"} =>
                   /\ ~run.threw
                   /\ SelectSeq(run.dom, LAMBDA n : n[1] = "expr" /\ n[2] = c) = run.last[c]

\* C25: for a dynamic child, after the initial invocation of its update
\* closure and after every later one, the inserted list holds exactly the
\* nodes of the most recent evaluation, those nodes stand in order right
\* before the child's insertion point, and no node of an earlier evaluation
\* is left under the parent.
C25_InsertedIsLastEvaluation ==
    (visitPhase = "ran" /\ opts.runtime) =>
        \A c \in 1..Len(tree.children) :
            tree.children[c] = "dynamic" =>
                LET at == JsIndexOf(run.dom, Marker(c))
                    n == Len(run.last[c])
                IN  /\ run.inserted[c] = run.last[c]
                    /\ at >= n
                    /\ SubSeq(run.dom, at - n + 1, at) = run.last[c]
                    /\ \A i \in 1..Len(run.dom) :
                           (run.dom[i][1] = "expr" /\ run.dom[i][2] = c) =>
                               i \in (at - n + 1)..at

\* C19: the statements that attach content of child i precede those of child
\* j when i < j, and at run time the children's content stands under the
\* parent in source order, static and dynamic children mixed, after any
\* number of re-renders.
C19_ChildrenInSourceOrder ==
    /\ visitPhase \in {"compiled", "ran"} =>
           \A i, j \in 1..Len(stmts) :
               (/\ i < j
                /\ stmts[i].k \in {"append", "push", "addElement", "callUpdate"}
                /\ stmts[j].k \in {"append", "push", "addElement", "callUpdate"}) =>
                   stmts[i].c <= stmts[j].c
    /\ visitPhase = "ran" =>
           ContentOrder(run.dom) = ExpectedOrder(1)

------------------------------------------------------------------------------
(* External dependencies across nested compilation contexts: the State      *)
(* constructor, findExternalDependencies, replaceReactiveAccesses and the   *)
(* wrapper declarations of visit (src/src/runtime.ts:325-390, 625-708,      *)
(* 1116-1127).                                                              *)
(*                                                                          *)
(* The program: a module importing m holds `function f(y) { let x; const    *)
(* c = ...; ... }` (scope 0), which holds the first root; each further root *)
(* is nested in an expression of the previous one, in a function that       *)
(* declares nothing. The attributes of root k may hold a handler `(y) => {   *)
(* let x; ... }` (scope k). A reference is a name and the scope of its      *)
(* binding.                                                                 *)

DepNames == {"x", "y", "c", "m"}

Ref(n, s) == [name |-> n, scope |-> s]

\* binding.kind of the binding a reference resolves to.
BindingKind(r) ==
    CASE r.name = "x" -> "let"
      [] r.name = "y" -> "param"
      [] r.name = "c" -> "const"
      [] r.name = "m" -> "module"

\* Whether the binding's scope lies inside the root call being compiled: the
\* walk from binding.scope.path up to this.rootPath, lines 647-655.
InsideRoot(r) == r.scope # 0

\* The expressions a context may process: one or two references, each to a
\* binding of the enclosing function or of the context's own handler.
Expressions(k) ==
    LET refs == {Ref(n, s) : n \in {"x", "y"}, s \in {0, k}}
                    \cup {Ref("c", 0), Ref("m", 0)}
    IN  {<<r>> : r \in refs} \cup {<<r1, r2>> : r1 \in refs, r2 \in refs}

\* new ExternalDependency(id, scope, createVar), lines 325-331.
ExternalDependency(id, scope, createVar) ==
    [id |-> id, scope |-> scope, createVar |-> createVar]

\* ExternalDependency.inherit, lines 332-334.
Inherit(dep) == ExternalDependency(dep.id, dep.scope, FALSE)

\* The dependencyFinder of findExternalDependencies on one identifier, lines
\* 627-659, on st = [deps, uid, created]: an entry of the same name and scope
\* is kept; a const or module binding and a parameter declared inside the
\* root are passed over; any other case stores a fresh entry under the name.
FindExternalDependency(st, r) ==
    IF st.deps[r.name] # Undefined /\ st.deps[r.name][1].scope = r.scope
    THEN st
    ELSE IF BindingKind(r) \in {"module", "const"}
    THEN st
    ELSE IF BindingKind(r) = "param" /\ InsideRoot(r)
    THEN st
    ELSE [deps |-> [st.deps EXCEPT ![r.name] =
                        Defined(ExternalDependency(st.uid, r.scope, TRUE))],
          uid |-> st.uid + 1,
          created |-> st.created \cup {[id |-> st.uid, name |-> r.name,
                                        scope |-> r.scope]}]

\* findExternalDependencies over the identifiers of an expression, in order.
RECURSIVE FindExternalDependenciesOf(_, _, _)
FindExternalDependenciesOf(st, e, i) ==
    IF i > Len(e) THEN st
    ELSE FindExternalDependenciesOf(FindExternalDependency(st, e[i]), e, i + 1)

\* replaceReactiveAccesses, lines 677-708: every identifier whose name has an
\* entry is replaced by the identifier stored under the name.
ReplaceReactiveAccesses(deps, e) ==
    {[name |-> e[i].name, scope |-> e[i].scope, id |-> deps[e[i].name][1].id] :
        i \in {j \in 1..Len(e) : deps[e[j].name] # Undefined}}

\* visit, lines 1116-1127: one declarator per entry that has createVar.
WrapperDeclarators(deps) ==
    {[id |-> deps[n][1].id, name |-> n] :
        n \in {m \in DepNames : deps[m] # Undefined /\ deps[m][1].createVar}}

DepsStart ==
    /\ extDepsOf = [n \in DepNames |-> Undefined]
    /\ depth = 1
    /\ visiting = TRUE
    /\ captures = 0
    /\ nextUid = 1
    /\ replacedBy = {}
    /\ created = {}
    /\ declared = [i \in 1..MaxUids |-> 0]

\* processAttributes on one attribute, or visitElement on one expression
\* child: the dependencies are found, then the accesses are replaced.
Capture(e) ==
    /\ visiting
    /\ captures < MaxCaptures
    /\ e \in Expressions(depth)
    /\ LET st == FindExternalDependenciesOf(
                     [deps |-> extDepsOf, uid |-> nextUid, created |-> created], e, 1)
       IN  /\ st.uid <= MaxUids + 1
           /\ extDepsOf' = st.deps
           /\ nextUid' = st.uid
           /\ created' = st.created
           /\ replacedBy' = replacedBy \cup ReplaceReactiveAccesses(st.deps, e)
    /\ captures' = captures + 1
    /\ UNCHANGED <<depth, visiting, declared>>
    /\ DepsFrame

\* The end of visit: the wrapper declarations of this context are emitted.
DeclareWrappers ==
    /\ visiting
    /\ visiting' = FALSE
    /\ declared' = [i \in 1..MaxUids |->
                        IF \E d \in WrapperDeclarators(extDepsOf) : d.id = i
                        THEN declared[i] + 1 ELSE declared[i]]
    /\ UNCHANGED <<extDepsOf, depth, captures, nextUid, replacedBy, created>>
    /\ DepsFrame

\* new State(pluginState, parentState) for the next nested root.
NewState ==
    /\ ~visiting
    /\ depth < MaxDepth
    /\ depth' = depth + 1
    /\ visiting' = TRUE
    /\ captures' = 0
    /\ extDepsOf' = [n \in DepNames |->
                        IF extDepsOf[n] = Undefined THEN Undefined
                        ELSE Defined(Inherit(extDepsOf[n][1]))]
    /\ UNCHANGED <<nextUid, replacedBy, created, declared>>
    /\ DepsFrame

DepsNext ==
    \/ \E k \in 1..MaxDepth : \E e \in Expressions(k) : Capture(e)
    \/ DeclareWrappers
    \/ NewState

\* C18: across the chain of contexts each captured variable (name and scope)
\* has exactly one container identifier, no identifier stands for two
\* variables, and once the contexts have emitted their declarations every
\* identifier in use is declared exactly once.
C18_OneIdentifierPerVariable ==
    /\ \A u1, u2 \in replacedBy :
           (u1.name = u2.name /\ u1.scope = u2.scope) <=> (u1.id = u2.id)
    /\ \A u \in replacedBy : declared[u.id] <= 1
    /\ ~visiting => \A u \in replacedBy : declared[u.id] = 1

\* C24: an identifier is captured only if its binding is declared outside the
\* root call and is neither constant nor module-scope: parameters and local
\* variables of functions nested inside the root are never captured, so no
\* wrapper is declared for them, while parameters of enclosing functions are.
C24_CapturedOnlyFromOutside ==
    /\ \A d \in created :
           /\ ~InsideRoot([name |-> d.name, scope |-> d.scope])
           /\ BindingKind([name |-> d.name, scope |-> d.scope]) \notin {"const", "module"}
    /\ \A u \in replacedBy :
           (BindingKind(u) = "param" /\ ~InsideRoot(u)) =>
               \E d \in created : d.name = u.name /\ d.scope = u.scope

------------------------------------------------------------------------------
(* Specifications                                                           *)

ObsIdle ==
    /\ inWrite = NoWrite
    /\ val = 1
    /\ observers = <<>>
    /\ nextObserver = 1
    /\ unsubCount = [h \in 1..MaxObservers |-> 0]
    /\ notified = <<>>
    /\ obsOp = [op |-> "new", arg |-> 1, before |-> <<>>]

CompIdle ==
    /\ depVal = [d \in Deps |-> 1]
    /\ depObs = [d \in Deps |-> <<>>]
    /\ mergeObs = <<>>
    /\ compDeps = <<>>
    /\ built = FALSE
    /\ derived = [val |-> <<>>, writes |-> 0]
    /\ evals = <<>>
    /\ builtWith = depVal
    /\ memberWrites = <<>>

MapIdle ==
    /\ dom = <<>>
    /\ values = <<>>
    /\ reactiveItems = <<>>
    /\ contVal = <<>>
    /\ listVal = [proxy |-> TRUE, plain |-> <<>>]
    /\ nextItem = 1
    /\ mapOps = 0
    /\ mapOp = [op |-> "none"]

NodeIdle ==
    /\ phase = "new"
    /\ cellVal = [c \in Cells \cup {"c"} |-> 1]
    /\ cellObs = [c \in Cells \cup {"c"} |-> <<>>]
    /\ mergedObs = <<>>
    /\ props = [a \in {"title", "className"} |-> Undefined]
    /\ children = <<>>
    /\ inserted = <<>>
    /\ subscriptions = <<>>
    /\ attached = FALSE
    /\ cellWrites = 0
    /\ atRelease = [props |-> props, children |-> children]

AttrIdle ==
    /\ attrSrc = <<>>
    /\ attrEnv = [n \in Names |-> IF n = "k" THEN ConstValue ELSE 1]
    /\ plainVal = attrEnv
    /\ extDeps = {}
    /\ emitted = <<>>
    /\ attrPhase = "source"
    /\ elProps = <<>>
    /\ contObs = [n \in ReactiveNames |-> <<>>]
    /\ derivedVal = <<>>
    /\ derivedObs = <<>>
    /\ attrWrites = 0
    /\ attrOp = [op |-> "none", name |-> "", changed |-> FALSE, read |-> 0]

VisitIdle ==
    /\ tree = [tag |-> "intrinsic", attrs |-> "null", children |-> <<>>]
    /\ opts = [runtime |-> TRUE, assertions |-> TRUE, ancestors |-> <<"statement">>]
    /\ visitPhase = "source"
    /\ stmts = <<>>
    /\ program = [replaced |-> "call", inserted |-> <<>>, body |-> <<>>,
               returns |-> "nothing", before |-> 0]
    /\ requested = {}
    /\ run = [dom |-> <<>>, inserted |-> [c \in 1..MaxChildren |-> <<>>],
              last |-> [c \in 1..MaxChildren |-> <<>>], yield |-> 1, rootUnder |-> 0,
              values |-> <<>>, threw |-> FALSE, gen |-> 1]
    /\ renders = 0

DepsIdle ==
    /\ extDepsOf = [n \in DepNames |-> Undefined]
    /\ depth = 1
    /\ visiting = FALSE
    /\ captures = 0
    /\ nextUid = 1
    /\ replacedBy = {}
    /\ created = {}
    /\ declared = [i \in 1..MaxUids |-> 0]

\* One container, its subscribers and its writes.
ObsInit == ObsStart /\ CompIdle /\ MapIdle /\ NodeIdle /\ AttrIdle /\ VisitIdle /\ DepsIdle

SpecObs == ObsInit /\ [][ObsNext]_vars

\* One computed value over containers that are written.
CompInit == CompStart /\ ObsIdle /\ MapIdle /\ NodeIdle /\ AttrIdle /\ VisitIdle /\ DepsIdle

SpecComputed == CompInit /\ [][CompNext]_vars

\* One list rendered by map() and the operations on its stand-in.
MapInit == MapStart /\ ObsIdle /\ CompIdle /\ NodeIdle /\ AttrIdle /\ VisitIdle /\ DepsIdle

SpecMap == MapInit /\ [][MapNext]_vars

\* One node built by the emitted setup code, writes to its containers, its release.
NodeInit == NodeStart /\ ObsIdle /\ CompIdle /\ MapIdle /\ AttrIdle /\ VisitIdle /\ DepsIdle

SpecNode == NodeInit /\ [][NodeNext]_vars

\* One attribute object compiled, the element created from it, writes to variables.
AttrInit == AttrStart /\ ObsIdle /\ CompIdle /\ MapIdle /\ NodeIdle /\ VisitIdle /\ DepsIdle

SpecAttr == AttrInit /\ [][AttrNext]_vars

\* One root call compiled, its statements run, its dynamic children re-rendered.
VisitInit == VisitStart /\ ObsIdle /\ CompIdle /\ MapIdle /\ NodeIdle /\ AttrIdle /\ DepsIdle

SpecVisit == VisitInit /\ [][VisitNext]_vars

\* A chain of nested roots, each capturing variables and declaring wrappers.
DepsInit ==
    DepsStart /\ ObsIdle /\ CompIdle /\ MapIdle /\ NodeIdle /\ AttrIdle /\ VisitIdle

SpecDeps == DepsInit /\ [][DepsNext]_vars

====
